---- MODULE Spec2Model ----
(***************************************************************************)
(* PySigur: asynchronous client of the Sigur OIF line protocol.            *)
(*                                                                         *)
(* Text is a sequence of one-character strings, so "OK" is <<"O", "K">>.   *)
(* Bytes and characters coincide on ASCII; the byte "xFF" stands for a     *)
(* byte that is not valid UTF-8.                                           *)
(*                                                                         *)
(* Specifications:                                                         *)
(*   Spec          a caller drives SigurAsyncClient against a peer that    *)
(*                 answers, errs, closes or stays silent                   *)
(*   SpecFramer    readline / read_utf8 against an arbitrary byte stream   *)
(*                 delivered in arbitrary socket reads                     *)
(*   SpecClassify  query's classification of one decoded reply line        *)
(*   SpecRecords   get_object_info_all / get_zone_info on one reply line   *)
(*   SpecPolicy    accesspolicy_request's choice of reply shape            *)
(*   SpecKeys      W26Key / W34Key: parse, serialize, parse again          *)
(*   SpecRequest   accesspolicy_request's command for every combination of *)
(*                 arguments                                               *)
(*   SpecConcurrent two callers share one client on one event loop         *)
(*   SpecFlood     readline against a peer that never ends its line, with  *)
(*                 the event loop's fairness                               *)
(***************************************************************************)
EXTENDS Integers, Sequences, FiniteSets, TLC

VARIABLES
    writer,    \* self._writer: "unset" (open_connection never called), "open", "closed"
    inflight,  \* bytes the peer has sent that no socket read has delivered yet
    fin,       \* the peer has closed its side after the bytes in flight
    buffer,    \* StreamReader._buffer
    eof,       \* StreamReader._eof
    rl,        \* position inside readline: "idle", "readuntil", "readexactly"
    result,    \* readline's local `result`
    consumed,  \* LimitOverrunError.consumed of the overrun being handled
    timer,     \* seconds the current wait_for has been waiting
    pc,        \* the caller's operation in progress, "idle" when none
    nops,      \* operations the caller has started
    last,      \* how the caller's last operation ended
    seen,      \* history: bytes in the buffer when readline began, then every delivery
    crSplit,   \* history: a socket read ended in CR and the next began with LF
    chunks,    \* history: overrun chunks this readline has accumulated, counted up to 2
    crKept,    \* history: an overrun consumed up to a CR that it left in the buffer
    wire,      \* commands written to the socket, each with the login state and the
               \* number of the caller's operation at the write
    answered,  \* commands of `wire` the peer has answered
    loggedIn,  \* history: login() has returned True on this connection
    ctx,       \* `async with` block: "none", "body", "bodyNone", "exited", "failed"
    arg,       \* input of the pure function under check
    ret,       \* its result
    got,       \* history: for each reply line a query read, how many commands were written
    queries,   \* history: calls of query that have written their command
    apq,       \* get_ap_list: the ids of ap_ids_list not yet asked for, the current one first
    aps,       \* get_ap_list: ap_list, the entries in insertion order
    sent,      \* history: the bytes the peer has sent, the first MaxResult of them
    lost,      \* history: readline's `result` at each timeout
    tasks,     \* SpecConcurrent: for each caller, where its query stands
    ready,     \* SpecConcurrent: the event loop's queue of callbacks ready to run
    ntodo,     \* SpecConcurrent: callbacks left to run in this iteration of the loop
    waiter,    \* SpecConcurrent: the caller whose future is StreamReader._waiter, 0 for None
    build,     \* SpecConcurrent: wait_for runs readuntil in a task of its own, or inline
    handed     \* SpecConcurrent: history of the reply lines read, who read each

vars == <<writer, inflight, fin, buffer, eof, rl, result, consumed, timer,
          pc, nops, last, seen, crSplit, crKept, chunks, wire, answered,
          loggedIn, ctx, arg, ret, got, queries, apq, aps, sent, lost,
          tasks, ready, ntodo, waiter, build, handed>>

\* the state of two callers sharing one event loop
loopVars == <<tasks, ready, ntodo, waiter, build, handed>>

----------------------------------------------------------------------------
(* Bounds of the model *)

\* _buffer_limit, 65536 in the source, scaled down
BufferLimit == 1
\* most bytes one socket read delivers
MaxChunk == 3
\* most bytes the peer sends in SpecFramer
MaxStream == 6
\* most operations the caller starts in Spec
MaxOps == 2
\* most read_utf8 calls the caller makes in SpecFramer and SpecFlood
MaxReads == 2
\* most bytes kept of readline's `result` (Python bytes are unbounded)
MaxResult == 48

(* Program constants *)

\* self._read_timeout
ReadTimeout == 3

CR == "\r"
LF == "\n"
EOLbytes == <<CR, LF>>
EOL == <<CR, LF>>
BadByte == "xFF"

----------------------------------------------------------------------------
(* Python str / bytes primitives *)

Min(a, b) == IF a < b THEN a ELSE b

\* s[i:].startswith(p), i counted from 1
HasAt(s, p, i) ==
    /\ i >= 1
    /\ i + Len(p) - 1 <= Len(s)
    /\ SubSeq(s, i, i + Len(p) - 1) = p

\* s.startswith(p)
StartsWith(s, p) == HasAt(s, p, 1)

\* s.find(p) counted from 1; 0 when p does not occur
Find(s, p) ==
    IF \E i \in 1..Len(s) : HasAt(s, p, i)
    THEN CHOOSE i \in 1..Len(s) : HasAt(s, p, i) /\ \A j \in 1..(i - 1) : ~HasAt(s, p, j)
    ELSE 0

\* the suffix is left on the text
RemoveSuffixNever(s, p) == s

\* s.removesuffix(p)
RemoveSuffix(s, p) ==
    IF Len(s) >= Len(p) /\ HasAt(s, p, Len(s) - Len(p) + 1)
    THEN SubSeq(s, 1, Len(s) - Len(p))
    ELSE s

\* the first n elements of s
Take(s, n) == SubSeq(s, 1, Min(n, Len(s)))

\* s without its first n elements
Drop(s, n) == SubSeq(s, n + 1, Len(s))

\* bytes.decode("utf-8"): an invalid byte raises UnicodeDecodeError, and the
\* ASCII bytes of the model are each the character of the same code
Decode(b) ==
    IF \E i \in 1..Len(b) : b[i] = BadByte
    THEN [ok |-> FALSE, text |-> <<>>]
    ELSE [ok |-> TRUE, text |-> [i \in 1..Len(b) |-> b[i]]]

----------------------------------------------------------------------------
(* asyncio.StreamReader.readuntil(b"\r\n") with limit = _buffer_limit, as   *)
(* readline calls it.  The probe is what one pass of its loop decides on    *)
(* the buffer as it stands.                                                 *)

ProbeReturn(buf) ==
    /\ Find(buf, EOLbytes) > 0
    /\ Find(buf, EOLbytes) - 1 <= BufferLimit

\* LimitOverrunError: the separator is found past the limit, or it is not found
\* and all but the last byte of the buffer is past the limit
ProbeOverrun(buf) ==
    \/ /\ Find(buf, EOLbytes) > 0
       /\ Find(buf, EOLbytes) - 1 > BufferLimit
    \/ /\ Find(buf, EOLbytes) = 0
       /\ Len(buf) >= Len(EOLbytes)
       /\ Len(buf) + 1 - Len(EOLbytes) > BufferLimit

\* consumed counts the whole buffer when the separator is not found
OverrunConsumedWhole(buf) ==
    IF Find(buf, EOLbytes) > 0
    THEN Find(buf, EOLbytes) - 1
    ELSE Len(buf)

\* LimitOverrunError.consumed
OverrunConsumed(buf) ==
    IF Find(buf, EOLbytes) > 0
    THEN Find(buf, EOLbytes) - 1
    ELSE Len(buf) + 1 - Len(EOLbytes)

\* IncompleteReadError: end of stream and no separator within reach
ProbeIncomplete(buf, atEof) ==
    /\ ~ProbeReturn(buf)
    /\ ~ProbeOverrun(buf)
    /\ atEof

\* readuntil suspends in _wait_for_data
ProbeBlocked(buf, atEof) ==
    /\ ~ProbeReturn(buf)
    /\ ~ProbeOverrun(buf)
    /\ ~atEof

\* the model keeps the first MaxResult bytes of a byte string
Kept(bytes) == Take(bytes, MaxResult)

\* result = data, dropping what was accumulated
AccumulateReplacing(res, data) == Kept(data)

\* result += data
Accumulate(res, data) == Kept(res \o data)

----------------------------------------------------------------------------
(* Texts of the protocol *)

T_ERROR == <<"E", "R", "R", "O", "R">>
T_OK == <<"O", "K">>
SP == " "

Digit(d) == <<"0", "1", "2", "3", "4", "5", "6", "7", "8", "9">>[d + 1]

\* decimal text of a natural number, as the server writes an error code
RECURSIVE Dec(_)
Dec(n) == IF n < 10 THEN <<Digit(n)>> ELSE Dec(n \div 10) \o <<Digit(n % 10)>>

\* the reply line ERROR <code> <text>
ErrorLine(code, text) == T_ERROR \o <<SP>> \o code \o <<SP>> \o text

----------------------------------------------------------------------------
(* Reply classification: SigurExceptionModel, SigurException, SigurOK *)

\* the classes SigurException.__init__ looks up, by error number
ex == <<
    "E_1_UNABLE_TO_CONNECT_TO_DB",
    "E_2_UNKNOWN_COMMAND",
    "E_3_UNSUPPORTED_INTERFACE_VERSION",
    "E_4_NOT_LOGGED_IN",
    "E_5_GENERIC_SQL_ERROR",
    "E_6_SYNTAX_ERROR",
    "E_7_UNKNOWN_OBJECT",
    "E_8_INTERNAL_ERROR",
    "E_9_CONCURRENT_TRANSACTION_IS_IN_PROGRESS",
    "E_10_UNKNOWN_ACCESS_POINT",
    "E_11_AUTHENTICATION_FAILED",
    "E_12_DELEGATION_IS_DISABLED",
    "E_13_DELEGATION_IS_NOT_ACTIVE",
    "E_14_NOT_SUBSCRIBED",
    "E_15_ALREADY_SUBSCRIBED",
    "E_16_SPECIFIED_KEY_ALREADY_IN_USE",
    "E_17_SPECIFIED_RULE_DOESNT_EXIST",
    "E_18_SPECIFIED_KEY_DOESNT_EXIST",
    "E_19_UNKNOWN_VIDEO_CHANNEL",
    "E_20_UNKNOWN_ALARM_LINE",
    "E_21_OIF_ACCESS_IS_DISABLED_FOR_THIS_USER",
    "E_22_VIDEO_IS_NOT_AVAILABLE",
    "E_23_STREAM_IS_NOT_OPENED",
    "E_24_FACE_RECOGNITION_IS_OFF",
    "E_25_ACCESS_POLICY_ERROR",
    "E_26_TIMED_OUT",
    "E_27_SOCKET_BIND_FAILED",
    "E_28_UNKNOWN_ERROR",
    "E_29_EXTMEM_ERROR" >>

\* the exceptions of exceptions.py, all derived from SigurBaseException
SigurTaxonomy ==
    {ex[c] : c \in 1..Len(ex)}
        \cup {"SigurTimeoutException", "SigurModelMismatch", "SigurException"}

\* SigurException(errno): the dictionary maps the keys "1" .. "29"; __init__
\* raises the class found, and the subscript raises KeyError for any other key
SigurException(errno) ==
    IF \E c \in 1..Len(ex) : Dec(c) = errno
    THEN ex[CHOOSE c \in 1..Len(ex) : Dec(c) = errno]
    ELSE "KeyError"

\* re.search("ERROR (?P<id>(.*?)) (?P<text>(.*?))", s) matches at p: the literal
\* "ERROR " stands at p and a space follows on the same line ("." excludes LF)
ErrorMatchAt(s, p) ==
    /\ HasAt(s, T_ERROR \o <<SP>>, p)
    /\ \E q \in (p + 6)..Len(s) :
          /\ s[q] = SP
          /\ \A k \in (p + 6)..(q - 1) : s[k] # LF

ErrorMatches(s) == \E p \in 1..Len(s) : ErrorMatchAt(s, p)

\* group "id" were it greedy, (.*): it ends before the last space
ErrorIdGreedy(s) ==
    LET p == CHOOSE i \in 1..Len(s) :
                 ErrorMatchAt(s, i) /\ \A j \in 1..(i - 1) : ~ErrorMatchAt(s, j)
        q == CHOOSE i \in (p + 6)..Len(s) :
                 s[i] = SP /\ \A j \in (i + 1)..Len(s) : s[j] # SP
    IN  SubSeq(s, p + 6, q - 1)

\* group "id" of the leftmost match: lazy, so it ends before the first space
ErrorId(s) ==
    LET p == CHOOSE i \in 1..Len(s) :
                 ErrorMatchAt(s, i) /\ \A j \in 1..(i - 1) : ~ErrorMatchAt(s, j)
        q == CHOOSE i \in (p + 6)..Len(s) :
                 s[i] = SP /\ \A j \in (p + 6)..(i - 1) : s[j] # SP
    IN  SubSeq(s, p + 6, q - 1)

\* what query raises for a line that starts with "ERROR"
ErrorRaised(data) ==
    IF ErrorMatches(data) THEN SigurException(ErrorId(data)) ELSE "SigurModelMismatch"

\* SigurOK(line) parses: re.search("(?P<ok>(OK))", line) finds a match
SigurOK(line) == Find(line, T_OK) > 0

----------------------------------------------------------------------------
(* How an operation ends.  `line` is the decoded reply line it read, if any *)

Returned(v, f) == [kind |-> "return", val |-> v, flag |-> f, exc |-> "", line |-> v]
Raised(e, ln) == [kind |-> "raise", val |-> <<>>, flag |-> FALSE, exc |-> e, line |-> ln]
NoResult == [op |-> "", kind |-> "none", val |-> <<>>, flag |-> FALSE, exc |-> "", line |-> <<>>]
As(op, r) == [op |-> op, kind |-> r.kind, val |-> r.val, flag |-> r.flag, exc |-> r.exc, line |-> r.line]

\* read_utf8 on the bytes readline returned
read_utf8(lineBytes) ==
    IF Decode(lineBytes).ok
    THEN Returned(RemoveSuffix(Decode(lineBytes).text, EOL), TRUE)
    ELSE Raised("UnicodeDecodeError", <<>>)

\* query were the test data.startswith("ERROR ")
queryTestingErrorSpace(r) ==
    IF r.kind = "return" /\ StartsWith(r.val, T_ERROR \o <<SP>>)
    THEN Raised(ErrorRaised(r.val), r.val)
    ELSE r

\* query after read_utf8 returned or raised r
query(r) ==
    IF r.kind = "return" /\ StartsWith(r.val, T_ERROR)
    THEN Raised(ErrorRaised(r.val), r.val)
    ELSE r

\* login after query returned or raised q
login(q) ==
    CASE q.kind = "return" /\ SigurOK(q.val) -> [Returned(<<>>, TRUE) EXCEPT !.line = q.line]
      [] q.kind = "return" -> [Returned(<<>>, FALSE) EXCEPT !.line = q.line]
      [] q.exc = "SigurModelMismatch" -> [Returned(<<>>, FALSE) EXCEPT !.line = q.line]
      [] OTHER -> q

\* how operation op ends once read_utf8 has returned or raised r
Outcome(op, r) ==
    CASE op = "read_utf8" -> As(op, r)
      [] op \in {"login", "aenter"} -> As(op, login(query(r)))
      [] OTHER -> As(op, query(r))

----------------------------------------------------------------------------
(* Python str primitives of the list and record code *)

\* s.removeprefix(p)
RemovePrefix(s, p) == IF StartsWith(s, p) THEN Drop(s, Len(p)) ELSE s

\* s.replace(old, new): occurrences are taken from the left, not overlapping
RECURSIVE Replace(_, _, _)
Replace(s, old, new) ==
    IF Find(s, old) = 0
    THEN s
    ELSE Take(s, Find(s, old) - 1) \o new
             \o Replace(Drop(s, Find(s, old) + Len(old) - 1), old, new)

\* s.split(sep): always at least one part
RECURSIVE Split(_, _)
Split(s, sep) ==
    IF Find(s, sep) = 0
    THEN <<s>>
    ELSE <<Take(s, Find(s, sep) - 1)>> \o Split(Drop(s, Find(s, sep) + Len(sep) - 1), sep)

\* s.count(p)
RECURSIVE Count(_, _)
Count(s, p) ==
    IF Find(s, p) = 0 THEN 0 ELSE 1 + Count(Drop(s, Find(s, p) + Len(p) - 1), p)

\* c is a decimal digit, \d on ASCII text
IsDigit(c) == c \in {"0", "1", "2", "3", "4", "5", "6", "7", "8", "9"}

\* s[p .. p+n-1] are n decimal digits
DigitsAt(s, p, n) ==
    /\ p >= 1
    /\ p + n - 1 <= Len(s)
    /\ \A i \in p..(p + n - 1) : IsDigit(s[i])

----------------------------------------------------------------------------
(* SigurResponse.parse: re.search(_regex, _raw_line).  The patterns of the   *)
(* record shapes are literals separated by groups of any characters but LF,  *)
(* greedy or lazy, so a match exists exactly when the literals occur in      *)
(* order with no LF between them.                                            *)

\* the literals lits[k..] occur in s in order, the first of them at or after p
\* and `anywhere` says whether what precedes it is unconstrained
RECURSIVE MatchSeq(_, _, _, _, _)
MatchSeq(s, lits, k, p, anywhere) ==
    \/ k > Len(lits)
    \/ \E i \in p..Len(s) :
          /\ HasAt(s, lits[k], i)
          /\ anywhere \/ \A j \in p..(i - 1) : s[j] # LF
          /\ MatchSeq(s, lits, k + 1, i + Len(lits[k]), FALSE)

\* re.search finds a match of the pattern with the literals lits
Search(s, lits) == MatchSeq(s, lits, 1, 1, TRUE)

\* the object a shape's constructor returns, or the SigurModelMismatch it raises
Parse(shape, lits, string) ==
    IF Search(string, lits)
    THEN [kind |-> "record", shape |-> shape, raw |-> string]
    ELSE [kind |-> "raise", shape |-> "SigurModelMismatch", raw |-> string]

T_EMP == <<"E", "M", "P">>
T_GUESTBADGE == <<"G", "U", "E", "S", "T", "B", "A", "D", "G", "E">>
T_CAR == <<"C", "A", "R">>
T_OBJECTINFO == <<"O", "B", "J", "E", "C", "T", "I", "N", "F", "O">>
T_ZONEINFO == <<"Z", "O", "N", "E", "I", "N", "F", "O">>
T_APLIST == <<"A", "P", "L", "I", "S", "T">>
T_APLIST_EMPTY == <<"A", "P", "L", "I", "S", "T", " ", "E", "M", "P", "T", "Y">>
T_APINFO == <<"A", "P", "I", "N", "F", "O">>
T_GETAPINFO == <<"G", "E", "T", "A", "P", "I", "N", "F", "O">>

ObjectInfoEmp(string) ==
    Parse("ObjectInfoEmp",
          <<<<"E", "M", "P", " ", "I", "D", " ">>, <<" ", "N", "A", "M", "E", " ", "\"">>, <<"\"", " ", "P", "O", "S", "I", "T", "I", "O", "N", " ", "\"">>, <<"\"", " ", "T", "A", "B", "N", "U", "M", "B", "E", "R", " ", "\"">>, <<"\"">>>>, string)

ObjectInfoGuest(string) ==
    Parse("ObjectInfoGuest",
          <<<<"G", "U", "E", "S", "T", "B", "A", "D", "G", "E", " ", "I", "D", " ">>, <<" ", "N", "A", "M", "E", " ", "\"">>, <<"\"", " ", "T", "A", "B", "N", "U", "M", "B", "E", "R", " ", "\"">>, <<"\"">>>>, string)

ObjectInfoCar(string) ==
    Parse("ObjectInfoCar",
          <<<<"C", "A", "R", " ", "I", "D", " ">>, <<" ", "N", "U", "M", "B", "E", "R", " ", "\"">>, <<"\"", " ", " ", "M", "O", "D", "E", "L", " ", "\"">>, <<"\"", " ", "T", "A", "B", "N", "U", "M", "B", "E", "R", " ", "\"">>, <<"\"">>>>, string)

ZoneInfo(string) ==
    Parse("ZoneInfo", <<<<"I", "D", " ">>, <<" ", "N", "A", "M", "E", " ", "\"">>, <<"\"">>>>, string)

APInfo(string) ==
    Parse("APInfo",
          <<<<"A", "P", "I", "N", "F", "O", " ", "I", "D", " ">>, <<" ", "N", "A", "M", "E", " ", "\"">>, <<"\"", " ", "Z", "O", "N", "E", "A", " ">>, <<" ", "Z", "O", "N", "E", "B", " ">>, <<" ", "S", "T", "A", "T", "E", " ">>, <<" ">>>>, string)

----------------------------------------------------------------------------
(* List processing: what a command method does with the reply query returned *)

\* the loop over the items, made[i] being what the constructor gives for
\* items[i]: the first constructor that raises ends the call, an item that
\* gives None is logged and skipped
ListOutcome(items, made) ==
    IF \E i \in 1..Len(items) : made[i].kind = "raise"
    THEN [kind |-> "raise", exc |-> "SigurModelMismatch", flag |-> FALSE,
          val |-> <<>>, segs |-> items]
    ELSE [kind |-> "return", exc |-> "", flag |-> TRUE,
          val |-> SelectSeq(made, LAMBDA o : o.kind = "record"),
          segs |-> items]

\* a method returns None
ReturnsNone ==
    [kind |-> "return", exc |-> "", flag |-> FALSE, val |-> <<>>, segs |-> <<>>]

\* SigurAsyncClient._match_object_info
match_object_info(string) ==
    CASE StartsWith(string, T_EMP) -> ObjectInfoEmp(string)
      [] StartsWith(string, T_GUESTBADGE) -> ObjectInfoGuest(string)
      [] StartsWith(string, T_CAR) -> ObjectInfoCar(string)
      [] OTHER -> [kind |-> "none", shape |-> "", raw |-> string]

\* the segments of get_object_info_all: replies_list
replies_list(reply) ==
    Split(Replace(Replace(Replace(RemovePrefix(reply, T_OBJECTINFO \o <<SP>>),
                                  <<",", " ", "E", "M", "P", " ">>, <<",", ",", "E", "M", "P", " ">>),
                          <<",", " ", "G", "U", "E", "S", "T", "B", "A", "D", "G", "E", " ">>, <<",", ",", "G", "U", "E", "S", "T", "B", "A", "D", "G", "E", " ">>),
                  <<",", " ", "C", "A", "R", " ">>, <<",", ",", "C", "A", "R", " ">>),
          <<",", ",">>)

\* get_object_info_all once query has returned reply
get_object_info_all(reply) ==
    IF reply = T_OBJECTINFO \/ ~StartsWith(reply, T_OBJECTINFO)
    THEN ReturnsNone
    ELSE LET items == replies_list(reply)
         IN  ListOutcome(items, [i \in 1..Len(items) |-> match_object_info(items[i])])

\* get_zone_info once query has returned reply
get_zone_info(reply) ==
    IF reply = T_ZONEINFO \/ ~StartsWith(reply, T_ZONEINFO)
    THEN ReturnsNone
    ELSE LET items == Split(RemovePrefix(reply, T_ZONEINFO \o <<SP>>), <<",", SP>>)
         IN  ListOutcome(items, [i \in 1..Len(items) |-> ZoneInfo(items[i])])

----------------------------------------------------------------------------
(* Access-policy replies *)

T_REPLY_RESULT == <<"A", "C", "C", "E", "S", "S", "P", "O", "L", "I", "C", "Y", "_", "R", "E", "P", "L", "Y", " ", "R", "E", "S", "U", "L", "T", " ">>
T_EMPID == <<" ", "E", "M", "P", "I", "D", " ">>
T_MASKVERPOLICY_OFF == <<" ", "M", "A", "S", "K", "V", "E", "R", "P", "O", "L", "I", "C", "Y", "_", "O", "F", "F">>

\* AccessPolicyReplyEmp._regex matches at p with n digits of result_id and m
\* digits of emp_id
EmpMatchAt(s, p, n, m) ==
    /\ HasAt(s, T_REPLY_RESULT, p)
    /\ DigitsAt(s, p + Len(T_REPLY_RESULT), n)
    /\ HasAt(s, T_EMPID, p + Len(T_REPLY_RESULT) + n)
    /\ DigitsAt(s, p + Len(T_REPLY_RESULT) + n + Len(T_EMPID), m)
    /\ HasAt(s, T_MASKVERPOLICY_OFF, p + Len(T_REPLY_RESULT) + n + Len(T_EMPID) + m)

\* AccessPolicyReplyNoEmp._regex matches at p with n digits of result_id
NoEmpMatchAt(s, p, n) ==
    /\ HasAt(s, T_REPLY_RESULT, p)
    /\ DigitsAt(s, p + Len(T_REPLY_RESULT), n)
    /\ HasAt(s, T_MASKVERPOLICY_OFF, p + Len(T_REPLY_RESULT) + n)

\* AccessPolicyReplyEmp(string): the leftmost match gives the fields
AccessPolicyReplyEmp(string) ==
    LET M == {t \in (1..Len(string)) \X (1..3) \X (1..5) :
                 EmpMatchAt(string, t[1], t[2], t[3])}
    IN  IF M = {}
        THEN [kind |-> "raise", shape |-> "SigurModelMismatch", raw |-> string,
              result_id |-> <<>>, emp_id |-> <<>>]
        ELSE LET t == CHOOSE u \in M : \A v \in M : u[1] <= v[1]
                 a == t[1] + Len(T_REPLY_RESULT)
                 b == a + t[2] + Len(T_EMPID)
             IN  [kind |-> "record", shape |-> "AccessPolicyReplyEmp", raw |-> string,
                  result_id |-> SubSeq(string, a, a + t[2] - 1),
                  emp_id |-> SubSeq(string, b, b + t[3] - 1)]

\* AccessPolicyReplyNoEmp(string)
AccessPolicyReplyNoEmp(string) ==
    LET M == {t \in (1..Len(string)) \X (1..3) : NoEmpMatchAt(string, t[1], t[2])}
    IN  IF M = {}
        THEN [kind |-> "raise", shape |-> "SigurModelMismatch", raw |-> string,
              result_id |-> <<>>, emp_id |-> <<>>]
        ELSE LET t == CHOOSE u \in M : \A v \in M : u[1] <= v[1]
                 a == t[1] + Len(T_REPLY_RESULT)
             IN  [kind |-> "record", shape |-> "AccessPolicyReplyNoEmp", raw |-> string,
                  result_id |-> SubSeq(string, a, a + t[2] - 1),
                  emp_id |-> <<>>]

\* only the with-employee shape is attempted
accesspolicy_requestEmpOnly(reply) ==
    [rec |-> AccessPolicyReplyEmp(reply), tried |-> <<"AccessPolicyReplyEmp">>]

\* accesspolicy_request once query has returned reply: the record returned or
\* the mismatch raised, and the shapes attempted, in order
accesspolicy_request(reply) ==
    IF AccessPolicyReplyEmp(reply).kind = "record"
    THEN [rec |-> AccessPolicyReplyEmp(reply), tried |-> <<"AccessPolicyReplyEmp">>]
    ELSE [rec |-> AccessPolicyReplyNoEmp(reply),
          tried |-> <<"AccessPolicyReplyEmp", "AccessPolicyReplyNoEmp">>]

----------------------------------------------------------------------------
(* Key values: W26Key and W34Key *)

\* widths of the key patterns and of the format specifications of __str__
KeyAWidth == 3
KeyBWidth == 5
HexWidth == 8

T_W26 == <<"W", "2", "6">>
T_W34 == <<"W", "3", "4">>
T_KEY == <<"K", "E", "Y">>

\* n zeros
Zeros(n) == [i \in 1..n |-> "0"]

\* format(s, "0w") of a str s: the fill is 0 and a str is aligned to the left,
\* so the zeros follow the text
FormatStr(s, w) == IF Len(s) >= w THEN s ELSE s \o Zeros(w - Len(s))

\* W26Key._regex matches at p with n digits, a comma and m digits
W26MatchAt(s, p, n, m) ==
    /\ DigitsAt(s, p, n)
    /\ HasAt(s, <<",">>, p + n)
    /\ DigitsAt(s, p + n + 1, m)

\* W26Key(string): the leftmost match, each group as long as it can be
W26Key(string) ==
    LET M == {t \in (1..Len(string)) \X (1..KeyAWidth) \X (1..KeyBWidth) :
                 W26MatchAt(string, t[1], t[2], t[3])}
    IN  IF M = {}
        THEN [kind |-> "raise", shape |-> "SigurModelMismatch", raw |-> string,
              key_a |-> <<>>, key_b |-> <<>>, key |-> <<>>]
        ELSE LET t == CHOOSE u \in M : \A v \in M :
                          \/ u[1] < v[1]
                          \/ u[1] = v[1] /\ u[2] > v[2]
                          \/ u[1] = v[1] /\ u[2] = v[2] /\ u[3] >= v[3]
             IN  [kind |-> "record", shape |-> "W26Key", raw |-> string,
                  key_a |-> SubSeq(string, t[1], t[1] + t[2] - 1),
                  key_b |-> SubSeq(string, t[1] + t[2] + 1, t[1] + t[2] + t[3]),
                  key |-> <<>>]

\* c is a character of [ABCDEF] or [0-9]
IsHex(c) == IsDigit(c) \/ c \in {"A", "B", "C", "D", "E", "F"}

\* W34Key(string): the leftmost HexWidth characters in a row that are all hex
W34Key(string) ==
    LET M == {p \in 1..Len(string) :
                 /\ p + HexWidth - 1 <= Len(string)
                 /\ \A i \in p..(p + HexWidth - 1) : IsHex(string[i])}
    IN  IF M = {}
        THEN [kind |-> "raise", shape |-> "SigurModelMismatch", raw |-> string,
              key_a |-> <<>>, key_b |-> <<>>, key |-> <<>>]
        ELSE LET p == CHOOSE q \in M : \A r \in M : q <= r
             IN  [kind |-> "record", shape |-> "W34Key", raw |-> string,
                  key_a |-> <<>>, key_b |-> <<>>,
                  key |-> SubSeq(string, p, p + HexWidth - 1)]

\* W26Key.__str__ and W34Key.__str__
KeyStr(k) ==
    IF k.shape = "W26Key"
    THEN T_W26 \o <<SP>> \o FormatStr(k.key_a, KeyAWidth)
               \o <<SP>> \o FormatStr(k.key_b, KeyBWidth)
    ELSE T_W34 \o <<SP>> \o k.key

\* query_object of accesspolicy_request for a key
query_object(k) == T_KEY \o <<SP>> \o KeyStr(k)

----------------------------------------------------------------------------
(* The command of accesspolicy_request *)

T_REQUEST == <<"A", "C", "C", "E", "S", "S", "P", "O", "L", "I", "C", "Y", "_", "R", "E", "Q", "U", "E", "S", "T", " ", "T", "Y", "P", "E", " ", "N", "O", "R", "M", "A", "L", " ", "T", "I", "M", "E", " ">>
T_LPNUMBER == <<"L", "P", "N", "U", "M", "B", "E", "R">>
T_EMPIDWORD == <<"E", "M", "P", "I", "D">>
T_DIRECTION == <<"D", "I", "R", "E", "C", "T", "I", "O", "N">>
T_APID == <<"A", "P", "I", "D">>
T_IN == <<"I", "N">>
T_OUT == <<"O", "U", "T">>
T_X == <<"X">>
QUOTE == "\""

\* an argument as Python passes it: its type and the text str() gives for it
PyNone == [type |-> "None", text |-> <<>>]
PyInt(t) == [type |-> "int", text |-> t]
PyStr(t) == [type |-> "str", text |-> t]
PyDict(t) == [type |-> "dict", text |-> t]

\* no key argument
NoKey == [kind |-> "none", shape |-> "", raw |-> <<>>,
          key_a |-> <<>>, key_b |-> <<>>, key |-> <<>>]

\* the truth value Python's `if x` and `x or y` give an argument
Truthy(x) ==
    CASE x.type = "None" -> FALSE
      [] x.type = "int" -> x.text # <<"0">>
      [] x.type = "str" -> x.text # <<>>
      [] x.type = "dict" -> x.text # <<"{", "}">>

\* `if key`: an instance of W26Key or W34Key is true
KeyGiven(k) == k.kind = "record"

\* the first of the three assignments wins
request_objectFirstWins(a) ==
    CASE Truthy(a.lpnumber) -> T_LPNUMBER \o <<SP>> \o a.lpnumber.text
      [] KeyGiven(a.key) -> query_object(a.key)
      [] Truthy(a.object_id) -> T_EMPIDWORD \o <<SP>> \o a.object_id.text
      [] OTHER -> <<>>

\* query_object after its three assignments: each one that applies replaces
\* the one before
request_object(a) ==
    LET q1 == IF Truthy(a.lpnumber) THEN T_LPNUMBER \o <<SP>> \o a.lpnumber.text ELSE <<>>
        q2 == IF KeyGiven(a.key) THEN query_object(a.key) ELSE q1
    IN  IF Truthy(a.object_id) THEN T_EMPIDWORD \o <<SP>> \o a.object_id.text ELSE q2

\* direction after `if direction not in ["IN", "OUT", "X"]`
request_direction(a) == IF a.direction \in {T_IN, T_OUT, T_X} THEN a.direction ELSE T_X

\* accesspolicy_request returns None before any query
request_refused(a) == ~(Truthy(a.lpnumber) \/ KeyGiven(a.key) \/ Truthy(a.object_id))

\* the text of `query`, a.date_time being the text strftime gives
request_query(a) ==
    T_REQUEST \o <<QUOTE>> \o a.date_time \o <<QUOTE>> \o <<SP>> \o request_object(a)
        \o <<SP>> \o T_DIRECTION \o <<SP>> \o request_direction(a)
        \o <<SP>> \o T_APID \o <<SP>> \o a.ap_id.text
        \o (IF Truthy(a.extra_rules) THEN <<SP>> \o a.extra_rules.text ELSE <<>>)

----------------------------------------------------------------------------
(* get_ap_list: one GETAPLIST, then get_ap_info for each listed id *)

\* get_ap_info once query has returned reply
get_ap_info(reply) ==
    IF reply = T_APINFO \/ ~StartsWith(reply, T_APINFO)
    THEN [kind |-> "none", shape |-> "", raw |-> reply]
    ELSE APInfo(reply)

\* ap_ids_list of get_ap_list
ap_ids_list(reply) == Split(RemovePrefix(reply, T_APLIST \o <<SP>>), <<SP>>)

\* get_ap_list goes on to the loop after query returned or raised q
ListsAccessPoints(q) ==
    /\ q.kind = "return"
    /\ q.val # T_APLIST_EMPTY
    /\ StartsWith(q.val, T_APLIST)

\* get_ap_list ends on the reply to GETAPLIST: query raised, or None is returned
ApListHead(q) ==
    IF q.kind = "raise" THEN q ELSE [Returned(<<>>, FALSE) EXCEPT !.line = q.val]

\* int(ap_id) of a decimal text; any other text raises ValueError
AllDigits(s) == s # <<>> /\ \A i \in 1..Len(s) : IsDigit(s[i])

RECURSIVE IntOf(_)
IntOf(s) ==
    IF s = <<>> THEN 0
    ELSE 10 * IntOf(SubSeq(s, 1, Len(s) - 1))
           + (CHOOSE d \in 0..9 : Digit(d) = s[Len(s)])

\* ap_list[key] = ap
DictSet(dict, key, ap) ==
    IF \E i \in 1..Len(dict) : dict[i].key = key
    THEN [i \in 1..Len(dict) |-> IF dict[i].key = key THEN [key |-> key, ap |-> ap]
                                  ELSE dict[i]]
    ELSE Append(dict, [key |-> key, ap |-> ap])

\* one pass of the loop of get_ap_list, after read_utf8 returned or raised r
\* inside the query of get_ap_info(ap_id): what is raised, if anything, and
\* ap_list after it
ApItem(r, ap_id, dict) ==
    LET q == query(r)
        ap == get_ap_info(q.val)
    IN  CASE q.kind = "raise" -> [exc |-> q.exc, dict |-> dict]
          [] ap.kind = "raise" -> [exc |-> "SigurModelMismatch", dict |-> dict]
          [] ap.kind = "none" -> [exc |-> "", dict |-> dict]
          [] ~AllDigits(ap_id) -> [exc |-> "ValueError", dict |-> dict]
          [] OTHER -> [exc |-> "", dict |-> DictSet(dict, IntOf(ap_id), ap.raw)]

----------------------------------------------------------------------------
(* The transport *)

\* one socket read delivers the next n bytes in flight to the StreamReader
\* (feed_data); the transport is paused while the buffer is above twice the limit
Deliver(n) ==
    /\ writer = "open"
    /\ n >= 1
    /\ n <= Len(inflight)
    /\ Len(buffer) <= 2 * BufferLimit
    /\ buffer' = buffer \o Take(inflight, n)
    /\ inflight' = Drop(inflight, n)
    /\ seen' = IF rl = "idle" THEN seen ELSE Kept(seen \o Take(inflight, n))
    /\ crSplit' = (crSplit \/ (/\ rl # "idle"
                               /\ seen # <<>>
                               /\ inflight[1] = LF
                               /\ Find(seen \o <<LF>>, EOLbytes) = Len(seen)))
    /\ UNCHANGED <<chunks, writer, fin, eof, rl, result, consumed, timer, pc, nops, last,
                   crKept, wire, answered, loggedIn, ctx, arg, ret>>
    /\ UNCHANGED <<got, queries, apq, aps, sent, lost, loopVars>>

\* the peer's close reaches the StreamReader (feed_eof)
DeliverEof ==
    /\ writer = "open"
    /\ fin
    /\ inflight = <<>>
    /\ ~eof
    /\ eof' = TRUE
    /\ UNCHANGED <<chunks, writer, inflight, fin, buffer, rl, result, consumed, timer, pc,
                   nops, last, seen, crSplit, crKept, wire, answered, loggedIn,
                   ctx, arg, ret>>
    /\ UNCHANGED <<got, queries, apq, aps, sent, lost, loopVars>>

----------------------------------------------------------------------------
(* SigurAsyncService.readline, one action per step between suspensions, and *)
(* what runs after it without suspending: read_utf8, query, the operation   *)

\* readline is entered: result = bytes(), first wait_for(readuntil)
StartRead ==
    /\ rl' = "readuntil"
    /\ result' = <<>>
    /\ consumed' = 0
    /\ timer' = 0
    /\ seen' = buffer
    /\ crSplit' = FALSE
    /\ crKept' = FALSE
    /\ chunks' = 0

\* close_connection: writer.close(), wait_closed(); the reader is fed eof and
\* what was in flight is never read
Closed(closes) ==
    /\ writer' = IF closes THEN "closed" ELSE writer
    /\ eof' = (closes \/ eof)
    /\ inflight' = IF closes THEN <<>> ELSE inflight
    /\ fin' = fin

\* get_ap_list has more to do after read_utf8 returned or raised r: the loop
\* begins after the reply to GETAPLIST, and goes on after a pass that raised
\* nothing while ids are left
Continues(r) ==
    \/ pc = "get_ap_list" /\ ListsAccessPoints(query(r))
    \/ pc = "get_ap_info" /\ ApItem(r, apq[1], aps).exc = "" /\ Len(apq) > 1

\* how get_ap_list ends once read_utf8 has returned or raised r
ApListOutcome(r) ==
    CASE pc = "get_ap_list" -> As("get_ap_list", ApListHead(query(r)))
      [] ApItem(r, apq[1], aps).exc # "" ->
            As("get_ap_list", Raised(ApItem(r, apq[1], aps).exc, <<>>))
      [] OTHER -> As("get_ap_list", Returned(<<>>, TRUE))

\* the operation in progress ends, or get_ap_list goes on, after read_utf8
\* returned or raised r; quit goes on to close_connection only when its query
\* returned
Ends(r) ==
    LET o == IF pc \in {"get_ap_list", "get_ap_info"} THEN ApListOutcome(r)
             ELSE Outcome(pc, r)
    IN  /\ pc' = IF Continues(r) THEN "ap_next" ELSE "idle"
        /\ rl' = "idle"
        /\ last' = IF Continues(r) THEN last ELSE o
        /\ apq' = CASE pc = "get_ap_list" /\ Continues(r) -> ap_ids_list(query(r).val)
                    [] pc = "get_ap_list" -> <<>>
                    [] pc = "get_ap_info" /\ Continues(r) -> Tail(apq)
                    [] pc = "get_ap_info" -> <<>>
                    [] OTHER -> apq
        /\ aps' = CASE pc = "get_ap_list" -> <<>>
                    [] pc = "get_ap_info" -> ApItem(r, apq[1], aps).dict
                    [] OTHER -> aps
        /\ Closed(pc = "quit" /\ o.kind = "return")
        /\ loggedIn' = CASE pc \in {"login", "aenter"} -> (o.kind = "return" /\ o.flag)
                         [] pc = "quit" /\ o.kind = "return" -> FALSE
                         [] OTHER -> loggedIn
        /\ ctx' = CASE pc = "aenter" /\ o.kind = "raise" -> "failed"
                    [] pc = "aenter" /\ o.flag -> "body"
                    [] pc = "aenter" -> "bodyNone"
                    [] OTHER -> ctx

\* readuntil returns the bytes up to and including the separator
ReaduntilReturn ==
    /\ rl = "readuntil"
    /\ ProbeReturn(buffer)
    /\ LET n == Find(buffer, EOLbytes) + Len(EOLbytes) - 1
       IN  /\ buffer' = Drop(buffer, n)
           /\ result' = Accumulate(result, Take(buffer, n))
           /\ Ends(read_utf8(Accumulate(result, Take(buffer, n))))
    /\ consumed' = 0
    /\ timer' = 0
    /\ UNCHANGED <<chunks, nops, seen, crSplit, crKept, wire, answered, arg, ret>>
    /\ got' = IF pc = "read_utf8" THEN got ELSE Append(got, Len(wire))
    /\ UNCHANGED <<queries, sent, lost, loopVars>>

\* readuntil raises LimitOverrunError
ReaduntilOverrun ==
    /\ rl = "readuntil"
    /\ ProbeOverrun(buffer)
    /\ rl' = "readexactly"
    /\ consumed' = OverrunConsumed(buffer)
    /\ timer' = 0
    /\ crKept' = (crKept \/ (Find(buffer, EOLbytes) = 0 /\ buffer[Len(buffer)] = CR))
    /\ UNCHANGED <<chunks, writer, inflight, fin, buffer, eof, result, pc, nops, last, seen,
                   crSplit, wire, answered, loggedIn, ctx, arg, ret>>
    /\ UNCHANGED <<got, queries, apq, aps, sent, lost, loopVars>>

\* except LimitOverrunError: readexactly(e.consumed), result += data, loop
Readexactly ==
    /\ rl = "readexactly"
    /\ buffer' = Drop(buffer, consumed)
    /\ result' = Accumulate(result, Take(buffer, consumed))
    /\ rl' = "readuntil"
    /\ consumed' = 0
    /\ timer' = 0
    /\ chunks' = Min(chunks + 1, 2)
    /\ UNCHANGED <<writer, inflight, fin, eof, pc, nops, last, seen, crSplit, crKept,
                   wire, answered, loggedIn, ctx, arg, ret>>
    /\ UNCHANGED <<got, queries, apq, aps, sent, lost, loopVars>>

\* at end of stream what is left is returned as the line, as
\* StreamReader.readline does
ReaduntilIncompleteReturnsPartial ==
    /\ rl = "readuntil"
    /\ ProbeIncomplete(buffer, eof)
    /\ buffer' = <<>>
    /\ result' = Accumulate(result, buffer)
    /\ consumed' = 0
    /\ timer' = 0
    /\ Ends(read_utf8(Accumulate(result, buffer)))
    /\ UNCHANGED <<chunks, nops, seen, crSplit, crKept, wire, answered, arg, ret>>
    /\ UNCHANGED <<got, queries, sent, lost, loopVars>>

\* readuntil raises IncompleteReadError at end of stream, emptying the buffer;
\* readline does not catch it
ReaduntilIncomplete ==
    /\ rl = "readuntil"
    /\ ProbeIncomplete(buffer, eof)
    /\ buffer' = <<>>
    /\ result' = <<>>
    /\ consumed' = 0
    /\ timer' = 0
    /\ Ends(Raised("IncompleteReadError", <<>>))
    /\ UNCHANGED <<chunks, nops, seen, crSplit, crKept, wire, answered, arg, ret>>
    /\ UNCHANGED <<got, queries, sent, lost, loopVars>>

\* a second passes while readuntil is suspended
Tick ==
    /\ rl = "readuntil"
    /\ ProbeBlocked(buffer, eof)
    /\ timer < ReadTimeout
    /\ timer' = timer + 1
    /\ UNCHANGED <<chunks, writer, inflight, fin, buffer, eof, rl, result, consumed, pc, nops,
                   last, seen, crSplit, crKept, wire, answered, loggedIn, ctx, arg, ret>>
    /\ UNCHANGED <<got, queries, apq, aps, sent, lost, loopVars>>

\* the timeout also empties the read buffer
TimeoutDraining ==
    /\ rl = "readuntil"
    /\ ProbeBlocked(buffer, eof)
    /\ timer = ReadTimeout
    /\ result' = <<>>
    /\ buffer' = <<>>
    /\ consumed' = 0
    /\ timer' = 0
    /\ lost' = Append(lost, result)
    /\ Ends(Raised("SigurTimeoutException", <<>>))
    /\ UNCHANGED <<chunks, nops, seen, crSplit, crKept, wire, answered, arg, ret>>
    /\ UNCHANGED <<got, queries, sent, loopVars>>

\* wait_for gives up on this readuntil: except TimeoutError raises
\* SigurTimeoutException and `result` is lost
Timeout ==
    /\ rl = "readuntil"
    /\ ProbeBlocked(buffer, eof)
    /\ timer = ReadTimeout
    /\ result' = <<>>
    /\ consumed' = 0
    /\ timer' = 0
    /\ lost' = Append(lost, result)
    /\ Ends(Raised("SigurTimeoutException", <<>>))
    /\ UNCHANGED <<chunks, buffer, nops, seen, crSplit, crKept, wire, answered, arg, ret>>
    /\ UNCHANGED <<got, queries, sent, loopVars>>

\* a caller awaits read_utf8
CallReadUtf8 ==
    /\ pc = "idle"
    /\ nops < MaxReads
    /\ pc' = "read_utf8"
    /\ nops' = nops + 1
    /\ StartRead
    /\ UNCHANGED <<writer, inflight, fin, buffer, eof, last, wire, answered, loggedIn,
                   ctx, arg, ret>>
    /\ UNCHANGED <<got, queries, apq, aps, sent, lost, loopVars>>

----------------------------------------------------------------------------
(* SpecFramer: the peer sends any bytes and may close; the caller reads lines *)

Bytes == {"a", CR, LF}

\* every byte sequence of at most n bytes
SeqsUpTo(S, n) == UNION {[1..k -> S] : k \in 0..n}

\* nothing read, no operation started
Silent ==
    /\ buffer = <<>>
    /\ eof = FALSE
    /\ rl = "idle"
    /\ result = <<>>
    /\ consumed = 0
    /\ timer = 0
    /\ pc = "idle"
    /\ nops = 0
    /\ last = NoResult
    /\ seen = <<>>
    /\ crSplit = FALSE
    /\ crKept = FALSE
    /\ chunks = 0
    /\ wire = <<>>
    /\ answered = 0
    /\ loggedIn = FALSE
    /\ ctx = "none"
    /\ ret = NoResult
    /\ got = <<>>
    /\ queries = 0
    /\ apq = <<>>
    /\ aps = <<>>
    /\ sent = inflight
    /\ lost = <<>>
    /\ tasks = <<>>
    /\ ready = <<>>
    /\ ntodo = 0
    /\ waiter = 0
    /\ build = ""
    /\ handed = <<>>

\* and no input of a pure function
Quiet == Silent /\ arg = <<>>

InitFramer ==
    /\ writer = "open"
    /\ inflight \in SeqsUpTo(Bytes, MaxStream)
    /\ fin \in BOOLEAN
    /\ Quiet

NextFramer ==
    \/ CallReadUtf8
    \/ \E n \in 1..MaxChunk : Deliver(n)
    \/ DeliverEof
    \/ ReaduntilReturn
    \/ ReaduntilOverrun
    \/ Readexactly
    \/ ReaduntilIncomplete
    \/ Tick
    \/ Timeout

SpecFramer == InitFramer /\ [][NextFramer]_vars

----------------------------------------------------------------------------
(* Spec: one caller drives a SigurAsyncClient; the peer answers each command *)
(* with one reply line, by closing the connection, or not at all; one       *)
(* socket read delivers all that is in flight                               *)

LOGIN == "LOGIN"
QUIT == "QUIT"

\* the commands of get_object_info, get_object_info_all, get_zone_info,
\* get_ap_info, get_ap_list and accesspolicy_request
GETAPLIST == "GETAPLIST"
GETAPINFO == "GETAPINFO"

HigherCommands ==
    {"GETOBJECTINFO OBJECTID", "GETOBJECTINFO ALL", "GETZONEINFO", GETAPINFO,
     GETAPLIST, "ACCESSPOLICY_REQUEST"}

T_NOK == <<"N", "O", "K">>
T_ERRORS == T_ERROR \o <<"S">>

\* replies to GETAPLIST and GETAPINFO: two ids listed, a well-formed record,
\* and a line that starts as a record and does not match
T_APLIST_1_2 == <<"A", "P", "L", "I", "S", "T", " ", "1", " ", "2">>
T_APINFO_1 == <<"A", "P", "I", "N", "F", "O", " ", "I", "D", " ", "1", " ", "N", "A", "M", "E", " ", "\"", "\"", " ", "Z", "O", "N", "E", "A", " ", "1", " ", "Z", "O", "N", "E", "B", " ", "2", " ", "S", "T", "A", "T", "E", " ", "a", " ", "b">>
T_APINFO_x == <<"A", "P", "I", "N", "F", "O", " ", "x">>

\* reply lines the peer chooses from
ReplyLines ==
    { T_OK,
      T_NOK,
      T_APINFO,
      T_ERROR,
      T_ERRORS,
      ErrorLine(Dec(11), <<"x">>),
      ErrorLine(Dec(999), <<"x">>),
      <<BadByte>> }

\* the lines the peer may answer a command with
RepliesTo(cmd) ==
    CASE cmd = QUIT -> {T_OK, ErrorLine(Dec(11), <<"x">>)}
      [] cmd = GETAPLIST -> {T_APLIST_EMPTY, T_APLIST_1_2, ErrorLine(Dec(11), <<"x">>)}
      [] cmd = GETAPINFO -> {T_APINFO_1, T_APINFO, T_APINFO_x, ErrorLine(Dec(11), <<"x">>)}
      [] cmd = LOGIN -> ReplyLines \ {T_APINFO, <<BadByte>>}
      [] OTHER -> ReplyLines \ {T_OK, T_NOK}

\* the number of the caller's operation that is writing: a new one when none
\* is in progress
Writing == IF pc = "idle" THEN nops + 1 ELSE nops

\* the command is written twice
WrittenTwice(cmd, id) ==
    <<[cmd |-> cmd, id |-> id, auth |-> loggedIn, op |-> Writing],
      [cmd |-> cmd, id |-> id, auth |-> loggedIn, op |-> Writing]>>

\* what one call of query puts on the wire: query_bytes, written once; the
\* model notes with it whether login had returned True and which of the
\* caller's operations wrote it
Written(cmd, id) == <<[cmd |-> cmd, id |-> id, auth |-> loggedIn, op |-> Writing]>>

\* SigurAsyncService.open_connection
open_connection ==
    /\ pc = "idle"
    /\ nops < MaxOps
    /\ writer = "unset"
    /\ ctx = "none"
    /\ writer' = "open"
    /\ nops' = nops + 1
    /\ last' = As("open_connection", Returned(<<>>, TRUE))
    /\ UNCHANGED <<inflight, fin, buffer, eof, rl, result, consumed, timer, pc, seen,
                   crSplit, crKept, chunks, wire, answered, loggedIn, ctx, arg, ret>>
    /\ UNCHANGED <<got, queries, apq, aps, sent, lost, loopVars>>

\* SigurAsyncService.close_connection; self._writer is no attribute before
\* open_connection, and closing a closed writer does nothing
close_connection ==
    /\ pc = "idle"
    /\ nops < MaxOps
    /\ ctx \notin {"body", "bodyNone"}
    /\ nops' = nops + 1
    /\ Closed(writer # "unset")
    /\ loggedIn' = FALSE
    /\ last' = As("close_connection",
                  IF writer = "unset" THEN Raised("AttributeError", <<>>)
                  ELSE Returned(<<>>, TRUE))
    /\ UNCHANGED <<buffer, rl, result, consumed, timer, pc, seen, crSplit, crKept,
                   chunks, wire, answered, ctx, arg, ret>>
    /\ UNCHANGED <<got, queries, apq, aps, sent, lost, loopVars>>

\* the head of SigurAsyncService.query, for operation op with command cmd:
\* write and drain, then read_utf8 is awaited.  Without a writer the attribute
\* lookup raises; on a closed writer the transport drops the bytes and drain
\* raises ConnectionResetError
Call(op, cmd) ==
    /\ pc = "idle"
    /\ nops < MaxOps
    /\ nops' = nops + 1
    /\ IF writer = "open"
       THEN /\ wire' = wire \o Written(cmd, <<>>)
            /\ queries' = queries + 1
            /\ pc' = op
            /\ StartRead
            /\ UNCHANGED last
       ELSE /\ last' = As(op, Raised(IF writer = "unset" THEN "AttributeError"
                                     ELSE "ConnectionResetError", <<>>))
            /\ UNCHANGED <<wire, queries, pc, rl, result, consumed, timer, seen,
                           crSplit, crKept, chunks>>
    /\ UNCHANGED <<writer, inflight, fin, buffer, eof, answered, loggedIn, ctx, arg, ret,
                   got, apq, aps, sent, lost, loopVars>>

\* SigurAsyncClient.login
CallLogin == Call("login", LOGIN)

\* SigurAsyncClient.quit and its alias exit
CallQuit == Call("quit", QUIT)

\* a command method of one query: get_object_info, get_object_info_all,
\* get_zone_info, get_ap_info, accesspolicy_request
CallQuery == \E cmd \in HigherCommands \ {GETAPLIST} : Call("query", cmd)

\* SigurAsyncClient.get_ap_list is called: its query of GETAPLIST
CallGetApList == Call("get_ap_list", GETAPLIST)

\* the loop of get_ap_list calls get_ap_info for the next id: the head of its
\* query, as in Call
ApNext ==
    /\ pc = "ap_next"
    /\ wire' = wire \o Written(GETAPINFO, apq[1])
    /\ queries' = queries + 1
    /\ pc' = "get_ap_info"
    /\ StartRead
    /\ UNCHANGED <<writer, inflight, fin, buffer, eof, nops, last, answered, loggedIn,
                   ctx, arg, ret, got, apq, aps, sent, lost, loopVars>>

\* SigurAsyncClient.__aenter__: open_connection, then login
aenter ==
    /\ pc = "idle"
    /\ nops < MaxOps
    /\ writer = "unset"
    /\ ctx = "none"
    /\ nops' = nops + 1
    /\ writer' = "open"
    /\ ctx' = "entering"
    /\ wire' = wire \o Written(LOGIN, <<>>)
    /\ queries' = queries + 1
    /\ pc' = "aenter"
    /\ StartRead
    /\ UNCHANGED <<inflight, fin, buffer, eof, last, answered, loggedIn, arg, ret,
                   got, apq, aps, sent, lost, loopVars>>

\* the body of the `async with` block completes or raises, and __aexit__
\* closes the connection
aexit ==
    /\ pc = "idle"
    /\ ctx \in {"body", "bodyNone"}
    /\ Closed(TRUE)
    /\ ctx' = "exited"
    /\ loggedIn' = FALSE
    /\ last' = As("aexit", Returned(<<>>, TRUE))
    /\ UNCHANGED <<buffer, rl, result, consumed, timer, pc, nops, seen, crSplit,
                   crKept, chunks, wire, answered, arg, ret>>
    /\ UNCHANGED <<got, queries, apq, aps, sent, lost, loopVars>>

\* the peer answers the oldest unanswered command with one line
ServerReply ==
    /\ writer = "open"
    /\ ~fin
    /\ answered < Len(wire)
    /\ answered' = answered + 1
    /\ \E line \in RepliesTo(wire[answered + 1].cmd) :
          /\ inflight' = inflight \o line \o EOLbytes
          /\ sent' = Kept(sent \o line \o EOLbytes)
    /\ UNCHANGED <<writer, fin, buffer, eof, rl, result, consumed, timer, pc, nops,
                   last, seen, crSplit, crKept, chunks, wire, loggedIn, ctx, arg, ret>>
    /\ UNCHANGED <<got, queries, apq, aps, lost, loopVars>>

\* the peer closes the connection instead of answering a command
ServerClose ==
    /\ writer = "open"
    /\ ~fin
    /\ answered < Len(wire)
    /\ fin' = TRUE
    /\ UNCHANGED <<writer, inflight, buffer, eof, rl, result, consumed, timer, pc,
                   nops, last, seen, crSplit, crKept, chunks, wire, answered,
                   loggedIn, ctx, arg, ret>>
    /\ UNCHANGED <<got, queries, apq, aps, sent, lost, loopVars>>

Init ==
    /\ writer = "unset"
    /\ inflight = <<>>
    /\ fin = FALSE
    /\ Quiet

Next ==
    \/ open_connection
    \/ close_connection
    \/ CallLogin
    \/ CallQuit
    \/ CallQuery
    \/ CallGetApList
    \/ ApNext
    \/ aenter
    \/ aexit
    \/ ServerReply
    \/ ServerClose
    \/ Deliver(Len(inflight))
    \/ DeliverEof
    \/ ReaduntilReturn
    \/ ReaduntilOverrun
    \/ Readexactly
    \/ ReaduntilIncomplete
    \/ Tick
    \/ Timeout

Spec == Init /\ [][Next]_vars

----------------------------------------------------------------------------
(* SpecClassify: query's classification of one decoded reply line *)

\* error numbers outside the dictionary of SigurException
UnknownCodes == {Dec(999), Dec(0), Dec(30), <<"0", "1", "1">>, <<"x">>}

ErrorTexts == {<<>>, <<"x">>, <<"b", "a", "d", SP, "c", "r", "e", "d", "s">>}

ClassifyInputs ==
    {ErrorLine(Dec(c), t) : c \in 1..Len(ex), t \in ErrorTexts}
        \cup {ErrorLine(code, t) : code \in UnknownCodes, t \in ErrorTexts}
        \cup (ReplyLines \ {<<BadByte>>})
        \cup {T_ERROR \o <<SP>> \o Dec(11)}

\* lines 57-60 of query on the line read_utf8 returned
Classify ==
    /\ ret.kind = "none"
    /\ ret' = As("query", query(Returned(arg, TRUE)))
    /\ UNCHANGED <<writer, inflight, fin, buffer, eof, rl, result, consumed, timer,
                   pc, nops, last, seen, crSplit, crKept, chunks, wire, answered,
                   loggedIn, ctx, arg>>
    /\ UNCHANGED <<got, queries, apq, aps, sent, lost, loopVars>>

InitClassify ==
    /\ writer = "open"
    /\ inflight = <<>>
    /\ fin = FALSE
    /\ Silent
    /\ arg \in ClassifyInputs

NextClassify == Classify

SpecClassify == InitClassify /\ [][NextClassify]_vars

----------------------------------------------------------------------------
(* SpecRecords: get_object_info_all and get_zone_info on one reply line that *)
(* lists up to MaxItems items                                               *)

\* most items of a listed reply
MaxItems == 3

\* items of an object list: well-formed records, one with a comma and a space
\* and one with two commas in its name, a segment with a known prefix that
\* does not match, and a segment with no known prefix
ObjectItems ==
    { <<"E", "M", "P", " ", "I", "D", " ", "1", " ", "N", "A", "M", "E", " ", "\"", "A", ",", " ", "B", "\"", " ", "P", "O", "S", "I", "T", "I", "O", "N", " ", "\"", "\"", " ", "T", "A", "B", "N", "U", "M", "B", "E", "R", " ", "\"", "\"">>,
      <<"E", "M", "P", " ", "I", "D", " ", "2", " ", "N", "A", "M", "E", " ", "\"", "A", ",", ",", "B", "\"", " ", "P", "O", "S", "I", "T", "I", "O", "N", " ", "\"", "\"", " ", "T", "A", "B", "N", "U", "M", "B", "E", "R", " ", "\"", "\"">>,
      <<"G", "U", "E", "S", "T", "B", "A", "D", "G", "E", " ", "I", "D", " ", "3", " ", "N", "A", "M", "E", " ", "\"", "\"", " ", "T", "A", "B", "N", "U", "M", "B", "E", "R", " ", "\"", "\"">>,
      <<"C", "A", "R", " ", "I", "D", " ", "4", " ", "N", "U", "M", "B", "E", "R", " ", "\"", "\"", " ", " ", "M", "O", "D", "E", "L", " ", "\"", "\"", " ", "T", "A", "B", "N", "U", "M", "B", "E", "R", " ", "\"", "\"">>,
      <<"E", "M", "P", " ", "x">>,
      <<"x">> }

ZoneItems == { <<"I", "D", " ", "1", " ", "N", "A", "M", "E", " ", "\"", "a", "\"">>, <<"I", "D", " ", "2", " ", "N", "A", "M", "E", " ", "\"", "b", "\"">>, <<"j", "u", "n", "k">> }

\* the items joined by comma and space, as the server lists them
RECURSIVE Join(_)
Join(items) ==
    IF Len(items) = 1 THEN items[1]
    ELSE items[1] \o <<",", SP>> \o Join(Tail(items))

Listings(head, items) ==
    {head \o <<SP>> \o Join(l) : l \in UNION {[1..k -> items] : k \in 1..MaxItems}}

ObjectReplies ==
    Listings(T_OBJECTINFO, ObjectItems) \cup {T_OBJECTINFO, ErrorLine(Dec(7), <<"x">>)}
ZoneReplies == Listings(T_ZONEINFO, ZoneItems) \cup {T_ZONEINFO}

\* a list method, from the return of read_utf8 inside query to its own end
ListCall(op) ==
    /\ ret.kind = "none"
    /\ LET q == query(Returned(arg, TRUE))
           o == IF q.kind = "raise"
                THEN [kind |-> "raise", exc |-> q.exc, flag |-> FALSE,
                      val |-> <<>>, segs |-> <<>>]
                ELSE IF op = "get_object_info_all" THEN get_object_info_all(q.val)
                ELSE get_zone_info(q.val)
       IN  ret' = [op |-> op, kind |-> o.kind, exc |-> o.exc, flag |-> o.flag,
                   val |-> o.val, segs |-> o.segs]
    /\ UNCHANGED <<writer, inflight, fin, buffer, eof, rl, result, consumed, timer,
                   pc, nops, last, seen, crSplit, crKept, chunks, wire, answered,
                   loggedIn, ctx, arg>>
    /\ UNCHANGED <<got, queries, apq, aps, sent, lost, loopVars>>

ObjectInfoAllReply == arg \in ObjectReplies /\ ListCall("get_object_info_all")

ZoneInfoReply == arg \in ZoneReplies /\ ListCall("get_zone_info")

InitRecords ==
    /\ writer = "open"
    /\ inflight = <<>>
    /\ fin = FALSE
    /\ Silent
    /\ arg \in ObjectReplies \cup ZoneReplies

NextRecords ==
    \/ ObjectInfoAllReply
    \/ ZoneInfoReply

SpecRecords == InitRecords /\ [][NextRecords]_vars

----------------------------------------------------------------------------
(* SpecPolicy: accesspolicy_request on one reply line *)

\* most digits of a result code and of an employee id in a reply
MaxResultDigits == 4
MaxEmpDigits == 6

ResultCodes == UNION {[1..k -> {"2", "5"}] : k \in 1..MaxResultDigits}
EmpIds == UNION {[1..k -> {"4", "2"}] : k \in 1..MaxEmpDigits}

\* the reply lines ACCESSPOLICY_REPLY RESULT r [EMPID e] MASKVERPOLICY_OFF
ReplyEmp(r, e) == T_REPLY_RESULT \o r \o T_EMPID \o e \o T_MASKVERPOLICY_OFF
ReplyNoEmp(r) == T_REPLY_RESULT \o r \o T_MASKVERPOLICY_OFF

PolicyReplies ==
    {ReplyEmp(r, e) : r \in ResultCodes, e \in EmpIds}
        \cup {ReplyNoEmp(r) : r \in ResultCodes}
        \cup {T_OK, ErrorLine(Dec(25), <<"x">>)}

\* accesspolicy_request, from the return of read_utf8 inside query to its end
AccessPolicyReply ==
    /\ ret.kind = "none"
    /\ LET q == query(Returned(arg, TRUE))
           o == accesspolicy_request(q.val)
       IN  ret' = IF q.kind = "raise"
                  THEN [op |-> "accesspolicy_request", kind |-> "raise", exc |-> q.exc,
                        shape |-> "", result_id |-> <<>>, emp_id |-> <<>>,
                        tried |-> <<>>]
                  ELSE [op |-> "accesspolicy_request",
                        kind |-> IF o.rec.kind = "record" THEN "return" ELSE "raise",
                        exc |-> IF o.rec.kind = "record" THEN "" ELSE o.rec.shape,
                        shape |-> IF o.rec.kind = "record" THEN o.rec.shape ELSE "",
                        result_id |-> o.rec.result_id, emp_id |-> o.rec.emp_id,
                        tried |-> o.tried]
    /\ UNCHANGED <<writer, inflight, fin, buffer, eof, rl, result, consumed, timer,
                   pc, nops, last, seen, crSplit, crKept, chunks, wire, answered,
                   loggedIn, ctx, arg>>
    /\ UNCHANGED <<got, queries, apq, aps, sent, lost, loopVars>>

InitPolicy ==
    /\ writer = "open"
    /\ inflight = <<>>
    /\ fin = FALSE
    /\ Silent
    /\ arg \in PolicyReplies

NextPolicy == AccessPolicyReply

SpecPolicy == InitPolicy /\ [][NextPolicy]_vars

----------------------------------------------------------------------------
(* SpecKeys: a key is parsed from text, serialized into a command, and the   *)
(* serialization is parsed again                                            *)

W26Texts ==
    {a \o <<",">> \o b :
        a \in UNION {[1..k -> {"0", "5"}] : k \in 1..KeyAWidth},
        b \in UNION {[1..k -> {"0", "7"}] : k \in 1..KeyBWidth}}

W34Texts == [1..HexWidth -> {"A", "1"}]

\* accesspolicy_request_w26 / accesspolicy_request_w34 up to query_object
Serialize(shape) ==
    /\ ret.kind = "none"
    /\ LET k == IF shape = "W26Key" THEN W26Key(arg) ELSE W34Key(arg)
       IN  ret' = [op |-> shape, kind |-> IF k.kind = "record" THEN "str" ELSE "raise",
                   key |-> k,
                   text |-> IF k.kind = "record" THEN KeyStr(k) ELSE <<>>,
                   command |-> IF k.kind = "record" THEN query_object(k) ELSE <<>>,
                   back |-> k]
    /\ UNCHANGED <<writer, inflight, fin, buffer, eof, rl, result, consumed, timer,
                   pc, nops, last, seen, crSplit, crKept, chunks, wire, answered,
                   loggedIn, ctx, arg>>
    /\ UNCHANGED <<got, queries, apq, aps, sent, lost, loopVars>>

SerializeW26 == arg \in W26Texts \cup {<<"x">>} /\ Serialize("W26Key")

SerializeW34 == arg \in W34Texts /\ Serialize("W34Key")

\* the key's shape is constructed from str(key)
Reparse ==
    /\ ret.kind = "str"
    /\ ret' = [ret EXCEPT !.kind = "parsed",
                          !.back = IF ret.op = "W26Key" THEN W26Key(ret.text)
                                   ELSE W34Key(ret.text)]
    /\ UNCHANGED <<writer, inflight, fin, buffer, eof, rl, result, consumed, timer,
                   pc, nops, last, seen, crSplit, crKept, chunks, wire, answered,
                   loggedIn, ctx, arg>>
    /\ UNCHANGED <<got, queries, apq, aps, sent, lost, loopVars>>

InitKeys ==
    /\ writer = "open"
    /\ inflight = <<>>
    /\ fin = FALSE
    /\ Silent
    /\ arg \in W26Texts \cup W34Texts \cup {<<"x">>}

NextKeys ==
    \/ SerializeW26
    \/ SerializeW34
    \/ Reparse

SpecKeys == InitKeys /\ [][NextKeys]_vars

----------------------------------------------------------------------------
(* SpecRequest: accesspolicy_request from its arguments to the command it   *)
(* writes                                                                   *)

\* the text of date_time.strftime(self._date_format)
Timestamp == <<"2", "0", "2", "6", "-", "0", "1", "-", "0", "2", " ", "0", "3", ":", "0", "4", ":", "0", "5">>

ObjectIds == {PyNone, PyInt(<<"0">>), PyInt(<<"7">>), PyStr(<<>>), PyStr(<<"7">>)}
LpNumbers == {PyNone, PyStr(<<>>), PyStr(<<"A", "1">>)}
Keys == {NoKey, W26Key(<<"5", ",", "7">>), W34Key(<<"A", "B", "C", "D", "E", "F", "1", "2">>)}
Directions == {T_IN, T_OUT, T_X, <<"U", "P">>, <<"i", "n">>, <<>>}
ExtraRules == {PyNone, PyDict(<<"{", "}">>), PyDict(<<"{", "'", "a", "'", ":", " ", "1", "}">>)}
ApIds == {PyInt(<<"1">>), PyStr(<<"2", "2">>)}

RequestArgs ==
    [object_id : ObjectIds, key : Keys, lpnumber : LpNumbers, direction : Directions,
     extra_rules : ExtraRules, ap_id : ApIds, date_time : {Timestamp}]

\* accesspolicy_request up to the write of its query: it returns None, or the
\* head of query puts the command on the wire
AccessPolicyRequest ==
    /\ ret.kind = "none"
    /\ IF request_refused(arg)
       THEN /\ ret' = As("accesspolicy_request", Returned(<<>>, FALSE))
            /\ UNCHANGED <<wire, queries>>
       ELSE /\ ret' = As("accesspolicy_request", [NoResult EXCEPT !.kind = "query"])
            /\ wire' = wire \o Written(request_query(arg), <<>>)
            /\ queries' = queries + 1
    /\ UNCHANGED <<writer, inflight, fin, buffer, eof, rl, result, consumed, timer,
                   pc, nops, last, seen, crSplit, crKept, chunks, answered,
                   loggedIn, ctx, arg>>
    /\ UNCHANGED <<got, apq, aps, sent, lost, loopVars>>

InitRequest ==
    /\ writer = "open"
    /\ inflight = <<>>
    /\ fin = FALSE
    /\ Silent
    /\ arg \in RequestArgs

NextRequest == AccessPolicyRequest

SpecRequest == InitRequest /\ [][NextRequest]_vars

----------------------------------------------------------------------------
(* SpecConcurrent: two callers await query on one SigurAsyncService in one   *)
(* event loop.  The loop runs the callbacks of its ready queue in order, an *)
(* iteration at a time; the socket's read callback joins the queue when an  *)
(* iteration begins.  asyncio.wait_for runs readuntil in a task of its own  *)
(* (Python 3.11) or inline (3.12 and later); the model takes either.  The   *)
(* peer answers each command with a line that fits the buffer limit, so no  *)
(* read overruns.                                                           *)

\* most calls of query the two callers begin
MaxCalls == 3

Callers == {1, 2}

\* the entry of the ready queue that is the transport's _read_ready
IO == 0

\* the command each caller sends and the line the peer answers it with
CommandOf(c) == IF c = 1 THEN "GETZONEINFO" ELSE "GETOBJECTINFO ALL"
AnswerTo(cmd) == IF cmd = CommandOf(1) THEN <<"a">> ELSE <<"b">>

\* a caller's coroutine arrives at `await service.query(...)`: its step is
\* scheduled
BeginQuery(c) ==
    /\ tasks[c].pc = "idle"
    /\ nops < MaxCalls
    /\ nops' = nops + 1
    /\ tasks' = [tasks EXCEPT ![c].pc = "query"]
    /\ ready' = Append(ready, c)
    /\ UNCHANGED <<writer, inflight, fin, buffer, eof, rl, result, consumed, timer, pc,
                   last, seen, crSplit, crKept, chunks, wire, answered, loggedIn,
                   ctx, arg, ret, got, queries, apq, aps, sent, lost, ntodo, waiter,
                   build, handed>>

\* the loop begins an iteration: the selector reports the socket readable,
\* unless reading is paused, and the callbacks now in the queue are the ones
\* this iteration runs
Select ==
    /\ ntodo = 0
    /\ \E io \in BOOLEAN :
          /\ io => (/\ inflight # <<>>
                    /\ Len(buffer) <= 2 * BufferLimit
                    /\ \A i \in 1..Len(ready) : ready[i] # IO)
          /\ ready' = IF io THEN Append(ready, IO) ELSE ready
    /\ ready' # <<>>
    /\ ntodo' = Len(ready')
    /\ UNCHANGED <<writer, inflight, fin, buffer, eof, rl, result, consumed, timer, pc,
                   nops, last, seen, crSplit, crKept, chunks, wire, answered,
                   loggedIn, ctx, arg, ret, got, queries, apq, aps, sent, lost,
                   tasks, waiter, build, handed>>

\* _read_ready: the bytes received are fed to the StreamReader, and
\* _wakeup_waiter clears _waiter and schedules the coroutine that was waiting
ReadReady(n) ==
    /\ ntodo > 0
    /\ ready[1] = IO
    /\ n >= 1
    /\ n <= Len(inflight)
    /\ ntodo' = ntodo - 1
    /\ buffer' = buffer \o Take(inflight, n)
    /\ inflight' = Drop(inflight, n)
    /\ waiter' = 0
    /\ ready' = IF waiter = 0 THEN Tail(ready) ELSE Append(Tail(ready), waiter)
    /\ tasks' = IF waiter = 0 THEN tasks ELSE [tasks EXCEPT ![waiter].pc = "woken"]
    /\ UNCHANGED <<writer, fin, eof, rl, result, consumed, timer, pc, nops, last, seen,
                   crSplit, crKept, chunks, wire, answered, loggedIn, ctx, arg, ret,
                   got, queries, apq, aps, sent, lost, build, handed>>

\* one pass of readuntil's loop for caller c, `rest` being the ready queue
\* after this callback, w the _waiter it finds, t the callers' state and nw
\* the number of commands written: the line is returned through read_utf8
\* and query; or _wait_for_data raises RuntimeError because another coroutine
\* is waiting; or it makes this coroutine the waiter
Pass(c, rest, w, t, nw) ==
    LET n == Find(buffer, EOLbytes) + Len(EOLbytes) - 1
    IN  /\ ready' = rest
        /\ CASE ProbeReturn(buffer) ->
                  /\ buffer' = Drop(buffer, n)
                  /\ tasks' = [t EXCEPT ![c].pc = "idle",
                                        ![c].last = As("query", query(read_utf8(Take(buffer, n))))]
                  /\ handed' = Append(handed, [by |-> c, wrote |-> t[c].wrote,
                                               written |-> nw,
                                               line |-> read_utf8(Take(buffer, n)).val])
                  /\ waiter' = w
             [] ~ProbeReturn(buffer) /\ w # 0 ->
                  /\ tasks' = [t EXCEPT ![c].pc = "idle",
                                        ![c].last = As("query", Raised("RuntimeError", <<>>))]
                  /\ waiter' = w
                  /\ UNCHANGED <<buffer, handed>>
             [] OTHER ->
                  /\ tasks' = [t EXCEPT ![c].pc = "waiting"]
                  /\ waiter' = c
                  /\ UNCHANGED <<buffer, handed>>

\* the command is written only when no other caller is inside query
QueryHeadSerialized(c) ==
    /\ ntodo > 0
    /\ ready[1] = c
    /\ tasks[c].pc = "query"
    /\ ntodo' = ntodo - 1
    /\ IF \E o \in Callers \ {c} : tasks[o].pc \in {"readuntil", "waiting", "woken"}
       THEN /\ ready' = Append(Tail(ready), c)
            /\ UNCHANGED <<wire, queries, tasks, buffer, handed, waiter>>
       ELSE /\ wire' = wire \o Written(CommandOf(c), <<>>)
            /\ queries' = queries + 1
            /\ tasks' = [tasks EXCEPT ![c].pc = "readuntil", ![c].wrote = Len(wire) + 1]
            /\ ready' = Append(Tail(ready), c)
            /\ UNCHANGED <<buffer, handed, waiter>>
    /\ UNCHANGED <<writer, inflight, fin, eof, rl, result, consumed, timer, pc, nops,
                   last, seen, crSplit, crKept, chunks, answered, loggedIn, ctx, arg,
                   ret, got, apq, aps, sent, lost, build>>

\* the head of SigurAsyncService.query for caller c: write and drain, neither
\* of which suspends, then readline's wait_for(readuntil): a new task whose
\* first step joins the queue, or the first pass at once
QueryHead(c) ==
    /\ ntodo > 0
    /\ ready[1] = c
    /\ tasks[c].pc = "query"
    /\ ntodo' = ntodo - 1
    /\ wire' = wire \o Written(CommandOf(c), <<>>)
    /\ queries' = queries + 1
    /\ IF build = "task"
       THEN /\ tasks' = [tasks EXCEPT ![c].pc = "readuntil", ![c].wrote = Len(wire) + 1]
            /\ ready' = Append(Tail(ready), c)
            /\ UNCHANGED <<buffer, handed, waiter>>
       ELSE Pass(c, Tail(ready), waiter, [tasks EXCEPT ![c].wrote = Len(wire) + 1],
                 Len(wire) + 1)
    /\ UNCHANGED <<writer, inflight, fin, eof, rl, result, consumed, timer, pc, nops,
                   last, seen, crSplit, crKept, chunks, answered, loggedIn, ctx, arg,
                   ret, got, apq, aps, sent, lost, build>>

\* a step of readuntil for caller c: the first step of wait_for's task, or
\* the coroutine resumes in _wait_for_data, whose `finally` sets _waiter to
\* None whoever had set it
Readuntil(c) ==
    /\ ntodo > 0
    /\ ready[1] = c
    /\ tasks[c].pc \in {"readuntil", "woken"}
    /\ ntodo' = ntodo - 1
    /\ Pass(c, Tail(ready), IF tasks[c].pc = "woken" THEN 0 ELSE waiter, tasks, Len(wire))
    /\ UNCHANGED <<writer, inflight, fin, eof, rl, result, consumed, timer, pc, nops,
                   last, seen, crSplit, crKept, chunks, wire, answered, loggedIn, ctx,
                   arg, ret, got, queries, apq, aps, sent, lost, build>>

\* wait_for gives up on caller c's readuntil after _read_timeout: the
\* cancelled coroutine leaves _wait_for_data through its `finally`, and
\* readline raises SigurTimeoutException
WaitForTimeout(c) ==
    /\ tasks[c].pc = "waiting"
    /\ tasks' = [tasks EXCEPT ![c].pc = "idle",
                              ![c].last = As("query", Raised("SigurTimeoutException", <<>>))]
    /\ waiter' = 0
    /\ UNCHANGED <<writer, inflight, fin, buffer, eof, rl, result, consumed, timer, pc,
                   nops, last, seen, crSplit, crKept, chunks, wire, answered,
                   loggedIn, ctx, arg, ret, got, queries, apq, aps, sent, lost,
                   ready, ntodo, build, handed>>

\* the peer answers the oldest unanswered command
PeerAnswers ==
    /\ answered < Len(wire)
    /\ answered' = answered + 1
    /\ inflight' = inflight \o AnswerTo(wire[answered + 1].cmd) \o EOLbytes
    /\ sent' = Kept(sent \o AnswerTo(wire[answered + 1].cmd) \o EOLbytes)
    /\ UNCHANGED <<writer, fin, buffer, eof, rl, result, consumed, timer, pc, nops,
                   last, seen, crSplit, crKept, chunks, wire, loggedIn, ctx, arg, ret,
                   got, queries, apq, aps, lost, loopVars>>

InitConcurrent ==
    /\ writer = "open"
    /\ inflight = <<>>
    /\ fin = FALSE
    /\ buffer = <<>>
    /\ eof = FALSE
    /\ rl = "idle"
    /\ result = <<>>
    /\ consumed = 0
    /\ timer = 0
    /\ pc = "idle"
    /\ nops = 0
    /\ last = NoResult
    /\ seen = <<>>
    /\ crSplit = FALSE
    /\ crKept = FALSE
    /\ chunks = 0
    /\ wire = <<>>
    /\ answered = 0
    /\ loggedIn = FALSE
    /\ ctx = "none"
    /\ arg = <<>>
    /\ ret = NoResult
    /\ got = <<>>
    /\ queries = 0
    /\ apq = <<>>
    /\ aps = <<>>
    /\ sent = <<>>
    /\ lost = <<>>
    /\ tasks = [c \in Callers |-> [pc |-> "idle", wrote |-> 0, last |-> NoResult]]
    /\ ready = <<>>
    /\ ntodo = 0
    /\ waiter = 0
    /\ build \in {"task", "inline"}
    /\ handed = <<>>

NextConcurrent ==
    \/ \E c \in Callers : BeginQuery(c)
    \/ Select
    \/ \E n \in 1..MaxChunk : ReadReady(n)
    \/ \E c \in Callers : QueryHead(c)
    \/ \E c \in Callers : Readuntil(c)
    \/ \E c \in Callers : WaitForTimeout(c)
    \/ PeerAnswers

SpecConcurrent == InitConcurrent /\ [][NextConcurrent]_vars

----------------------------------------------------------------------------
(* SpecFlood: the peer never sends an end-of-line marker and never closes;  *)
(* it may go on sending for ever.  The event loop runs every step of        *)
(* readline that is ready, and time passes while readuntil is suspended.    *)

FloodBytes == {"a"}

\* one more unterminated byte reaches the StreamReader
PeerFlood ==
    /\ writer = "open"
    /\ Len(buffer) <= 2 * BufferLimit
    /\ \E b \in FloodBytes :
          /\ buffer' = buffer \o <<b>>
          /\ seen' = IF rl = "idle" THEN seen ELSE Kept(seen \o <<b>>)
          /\ sent' = Kept(sent \o <<b>>)
    /\ UNCHANGED <<writer, inflight, fin, eof, rl, result, consumed, timer, pc, nops,
                   last, crSplit, crKept, chunks, wire, answered, loggedIn, ctx,
                   arg, ret>>
    /\ UNCHANGED <<got, queries, apq, aps, lost, loopVars>>

InitFlood ==
    /\ writer = "open"
    /\ inflight = <<>>
    /\ fin = FALSE
    /\ Quiet

NextFlood ==
    \/ CallReadUtf8
    \/ PeerFlood
    \/ ReaduntilOverrun
    \/ Readexactly
    \/ Tick
    \/ Timeout

SpecFlood ==
    /\ InitFlood
    /\ [][NextFlood]_vars
    /\ WF_vars(ReaduntilOverrun)
    /\ WF_vars(Readexactly)
    /\ WF_vars(Tick)
    /\ WF_vars(Timeout)

----------------------------------------------------------------------------
(* Line framing: claims C9 and C10, checked under SpecFramer *)

\* the bytes readline is to return: what it has seen, up to and including the
\* first end-of-line marker
FirstLine(bytes) == Take(bytes, Find(bytes, EOLbytes) + Len(EOLbytes) - 1)

ReadReturned == pc = "idle" /\ last.op = "read_utf8" /\ last.kind = "return"

\* C9: whenever readline returns, also after buffer-limit overruns, it returns
\* exactly the bytes received from its start up to and including the first
\* terminator, in order, none lost or duplicated; and no readline ends in
\* LimitOverrunError.
C9_WholeLineAssembled ==
    /\ ReadReturned =>
          /\ Find(seen, EOLbytes) > 0
          /\ result = FirstLine(seen)
    /\ last.exc \in {"", "SigurTimeoutException", "IncompleteReadError"}

\* a line longer than the buffer limit was returned after two overrun chunks
C9_Witness ==
    /\ ReadReturned
    /\ chunks >= 2
    /\ Len(result) > BufferLimit + Len(EOLbytes)

\* C10: when the terminator arrived split over two socket reads, read_utf8
\* returns the received bytes before the terminator as one line.
C10_SplitTerminatorReassembled ==
    (ReadReturned /\ crSplit) =>
        /\ last.val \o EOL = FirstLine(seen)
        /\ Find(last.val, EOL) = 0

\* the split fell on the boundary of an overrun chunk: the overrun consumed
\* everything before the CR, the LF came with the next socket read
C10_Witness ==
    /\ ReadReturned
    /\ crSplit
    /\ crKept
    /\ Len(last.val) > BufferLimit

\* C11: every line read_utf8 returns contains no CR LF, and is the stream
\* content from the read position up to the first CR LF, for every byte stream
\* and every chunking of it.
C11_RawLineHasNoTerminator ==
    ReadReturned =>
        /\ Find(last.val, EOL) = 0
        /\ last.val \o EOL = FirstLine(seen)

\* the second line of a stream was returned, assembled after an overrun
C11_Witness ==
    /\ ReadReturned
    /\ nops = 2
    /\ chunks >= 1
    /\ last.val # <<>>

----------------------------------------------------------------------------
(* Termination of readline: claim C8, checked under SpecFlood *)

\* C8: a readline call for which no end-of-line marker ever arrives
\* eventually ends, raising SigurTimeoutException, whatever the peer sends.
C8_ReadlineEndsInTimeout ==
    (rl # "idle") ~> (rl = "idle" /\ last.exc = "SigurTimeoutException")

----------------------------------------------------------------------------
(* Session: claims C1 to C4 and C7, checked under Spec *)

LoginReturned == pc = "idle" /\ last.op = "login" /\ last.kind = "return"

\* C2: login returns True, and the session counts as authenticated, only
\* when the reply line is the token OK; for any other reply line that is no
\* error envelope it returns False.
C2_LoginSucceedsOnlyOnOK ==
    /\ LoginReturned => (last.flag <=> last.line = T_OK)
    /\ (loggedIn /\ last.op = "login") => last.line = T_OK

\* C3: once quit has ended, by returning or by raising, the connection it
\* was called on is not left open.
C3_QuitReleasesTransport ==
    (pc = "idle" /\ last.op = "quit") => writer # "open"

\* the classes raised for the codes of the server's enumeration
ServerErrors == {ex[c] : c \in 1..Len(ex)}

\* C4: once the `async with` statement is over, whether the body ran (after
\* login returned True or False) or login raised a server error or a timeout
\* in __aenter__, the connection opened on entry is not left open.
C4_ContextManagerReleases ==
    (ctx = "exited" \/ (ctx = "failed" /\ last.exc \in ServerErrors \cup {"SigurTimeoutException"}))
        => writer # "open"

\* a query has read a reply line and decoded it
QueryLineReceived ==
    /\ pc = "idle"
    /\ last.op = "query"
    /\ last.exc \notin {"AttributeError", "ConnectionResetError", "SigurTimeoutException",
                        "IncompleteReadError", "UnicodeDecodeError"}

\* the reply line as the peer sent it, without its terminator
ReplyLine == RemoveSuffix(FirstLine(seen), EOLbytes)

\* C7: a query that has received a reply line returns exactly when the line
\* does not begin with the characters ERROR, and what it returns is the line
\* as sent with only the terminator removed.
C7_QueryReturnsPayloadUnchanged ==
    QueryLineReceived =>
        /\ last.kind = "return" <=> ~StartsWith(ReplyLine, T_ERROR)
        /\ last.kind = "return" => last.val = ReplyLine

\* a query returned a payload longer than the buffer limit
C7_Witness ==
    /\ QueryLineReceived
    /\ last.kind = "return"
    /\ last.val = T_APINFO
    /\ chunks >= 1

----------------------------------------------------------------------------
(* Server errors: claims C5 and C6, checked under SpecClassify *)

Classified == ret.kind # "none"

\* C5: for every code c in 1..29 the line ERROR c <text> makes query raise
\* the class the dictionary assigns to c, a class no other code is assigned;
\* code 11 raises E_11_AUTHENTICATION_FAILED.
C5_ServerErrorMapped ==
    Classified =>
        \A c \in 1..29 : \A t \in ErrorTexts :
            arg = ErrorLine(Dec(c), t) =>
                /\ ret.kind = "raise"
                /\ ret.exc = ex[c]
                /\ \A d \in 1..29 : d # c => ret.exc # ex[d]
                /\ c = 11 => ret.exc = "E_11_AUTHENTICATION_FAILED"

\* ERROR 11 bad creds has been classified
C5_Witness ==
    /\ Classified
    /\ arg = ErrorLine(Dec(11), <<"b", "a", "d", SP, "c", "r", "e", "d", "s">>)
    /\ ret.exc = "E_11_AUTHENTICATION_FAILED"

\* C6: a line ERROR <code> <text> with a code outside the enumeration makes
\* query raise an exception of the client's own taxonomy.
C6_UnknownCodeIsSigurError ==
    Classified =>
        \A code \in UnknownCodes : \A t \in ErrorTexts :
            arg = ErrorLine(code, t) =>
                /\ ret.kind = "raise"
                /\ ret.exc \in SigurTaxonomy

----------------------------------------------------------------------------
(* List processing: claims C12 and C13, checked under SpecRecords *)

\* a list method has gone through the items of a listed reply
ListProcessed ==
    /\ ret.op \in {"get_object_info_all", "get_zone_info"}
    /\ ret.segs # <<>>

\* the records of the well-formed items among segs, in order
WellFormed(op, segs) ==
    SelectSeq([i \in 1..Len(segs) |->
                  IF op = "get_zone_info" THEN ZoneInfo(segs[i])
                  ELSE match_object_info(segs[i])],
              LAMBDA o : o.kind = "record")

\* C12: when a list method has gone through the items of a reply, it returns,
\* whatever items were malformed, and what it returns is the records of all
\* the well-formed items.
C12_MismatchCaughtPerItem ==
    ListProcessed =>
        /\ ret.kind = "return"
        /\ ret.val = WellFormed(ret.op, ret.segs)

\* C13: get_object_info_all cuts the payload into 1 plus as many sub-lines as
\* the payload has occurrences of a separator followed by EMP, GUESTBADGE or
\* CAR and a space; nothing else in the payload causes a cut.
C13_SplitOnlyBeforeRecordStart ==
    (ret.op = "get_object_info_all" /\ ret.segs # <<>>) =>
        Len(ret.segs) = 1 + Count(arg, <<",", " ", "E", "M", "P", " ">>) + Count(arg, <<",", " ", "G", "U", "E", "S", "T", "B", "A", "D", "G", "E", " ">>)
                          + Count(arg, <<",", " ", "C", "A", "R", " ">>)

----------------------------------------------------------------------------
(* Access-policy replies: claim C14, checked under SpecPolicy *)

PolicyAnswered == ret.op = "accesspolicy_request"

\* C14: for r of 1 to 3 digits and e of 1 to 5 digits, the reply with EMPID e
\* gives the with-employee record (r, e) at the first attempt, and the reply
\* without EMPID is first attempted as the with-employee shape, mismatches,
\* and gives the without-employee record (r) at the second attempt.
C14_EmpShapeAttemptedFirst ==
    PolicyAnswered =>
        \A r \in ResultCodes :
            Len(r) <= 3 =>
                /\ arg = ReplyNoEmp(r) =>
                      /\ ret.kind = "return"
                      /\ ret.tried = <<"AccessPolicyReplyEmp", "AccessPolicyReplyNoEmp">>
                      /\ ret.shape = "AccessPolicyReplyNoEmp"
                      /\ ret.result_id = r
                /\ \A e \in EmpIds :
                      (Len(e) <= 5 /\ arg = ReplyEmp(r, e)) =>
                          /\ ret.kind = "return"
                          /\ ret.tried = <<"AccessPolicyReplyEmp">>
                          /\ ret.shape = "AccessPolicyReplyEmp"
                          /\ ret.result_id = r
                          /\ ret.emp_id = e

\* ACCESSPOLICY_REPLY RESULT 255 MASKVERPOLICY_OFF gave the without-employee
\* record after the with-employee shape mismatched
C14_Witness ==
    /\ PolicyAnswered
    /\ arg = ReplyNoEmp(<<"2", "5", "5">>)
    /\ ret.shape = "AccessPolicyReplyNoEmp"
    /\ ret.tried = <<"AccessPolicyReplyEmp", "AccessPolicyReplyNoEmp">>

----------------------------------------------------------------------------
(* Key values: claims C16 and C17, checked under SpecKeys *)

\* s with zeros before it up to the width w
ZeroPadded(s, w) == IF Len(s) >= w THEN s ELSE Zeros(w - Len(s)) \o s

\* C16: a Wiegand-26 key of 1 to 3 and 1 to 5 digits is serialized as W26,
\* key_a with zeros before it up to 3 digits, a space, and key_b with zeros
\* before it up to 5 digits.
C16_W26ZeroPaddedOnTheLeft ==
    (ret.op = "W26Key" /\ ret.kind \in {"str", "parsed"}) =>
        /\ ret.text = T_W26 \o <<SP>> \o ZeroPadded(ret.key.key_a, KeyAWidth)
                            \o <<SP>> \o ZeroPadded(ret.key.key_b, KeyBWidth)
        /\ ret.command = T_KEY \o <<SP>> \o ret.text

\* C17: for both key shapes, constructing the shape from str(key) succeeds
\* and gives the fields of the original key.
C17_KeyRoundTrips ==
    (ret.op \in {"W26Key", "W34Key"} /\ ret.kind = "parsed") =>
        /\ ret.back.kind = "record"
        /\ ret.back.key_a = ret.key.key_a
        /\ ret.back.key_b = ret.key.key_b
        /\ ret.back.key = ret.key.key

----------------------------------------------------------------------------
(* Commands and replies of a session: claims C15, C18, C19 and C20, checked  *)
(* under Spec                                                               *)

\* C15: when the reply to GETAPLIST is APLIST EMPTY, get_ap_list returns a
\* collection, with no entries, and GETAPLIST is the last command written.
C15_EmptyListGivesEmptyCollection ==
    (pc = "idle" /\ last.op = "get_ap_list" /\ last.line = T_APLIST_EMPTY) =>
        /\ last.kind = "return"
        /\ last.flag
        /\ aps = <<>>
        /\ wire[Len(wire)].cmd = GETAPLIST

\* the commands operation n of the caller has written
WrittenBy(n) == {i \in 1..Len(wire) : wire[i].op = n}

\* C18: every call of query has written one command, no call of query has
\* read two reply lines, and a login, query or quit that ended with a payload,
\* a server error, a mismatch or a timeout has written one command, LOGIN in
\* the case of login.
C18_NothingRetried ==
    /\ Len(wire) = queries
    /\ \A i, j \in 1..Len(got) : i < j => got[i] < got[j]
    /\ (pc = "idle" /\ last.op \in {"login", "query", "quit"}
           /\ last.exc \notin {"AttributeError", "ConnectionResetError"}) =>
          /\ Cardinality(WrittenBy(nops)) = 1
          /\ last.op = "login" => \A i \in WrittenBy(nops) : wire[i].cmd = LOGIN

\* a login got the server error of ERROR 11 x after an earlier command of the
\* connection had timed out unanswered
C18_Witness ==
    /\ pc = "idle"
    /\ last.op = "login"
    /\ last.exc = "E_11_AUTHENTICATION_FAILED"
    /\ Len(wire) = 2
    /\ Len(got) = 1

\* C19: close_connection returns without an error in every state and leaves
\* the connection closed.
C19_CloseUsableInEveryState ==
    (pc = "idle" /\ last.op = "close_connection") =>
        /\ last.kind = "return"
        /\ writer = "closed"

\* C20: the GETAPINFO of a listed id is written after the GETAPLIST or
\* GETAPINFO of the same get_ap_list, and the k-th reply line a query reads
\* is read by the query that wrote the k-th command.
C20_ReplyAttributedToItsCommand ==
    /\ \A i \in 1..Len(wire) :
          (wire[i].cmd = GETAPINFO /\ wire[i].id # <<>>) =>
              /\ i > 1
              /\ wire[i - 1].op = wire[i].op
              /\ wire[i - 1].cmd \in {GETAPLIST, GETAPINFO}
    /\ \A k \in 1..Len(got) : got[k] = k

----------------------------------------------------------------------------
(* The peer closes in the middle of a line: claim C24, checked under         *)
(* SpecFramer                                                               *)

\* C24: when the stream has ended and no terminator was received during a
\* read, the query around that read raises: it returns no payload, and the
\* bytes readline had accumulated are gone.
C24_ClosedMidLineRaises ==
    (pc = "idle" /\ last.op = "read_utf8" /\ eof /\ Find(seen, EOLbytes) = 0) =>
        /\ query(last).kind = "raise"
        /\ query(last).val = <<>>
        /\ result = <<>>

\* the peer closed after unterminated bytes of which readline had already
\* accumulated an overrun chunk
C24_Witness ==
    /\ pc = "idle"
    /\ last.op = "read_utf8"
    /\ last.exc = "IncompleteReadError"
    /\ eof
    /\ chunks >= 1
    /\ seen # <<>>
    /\ Find(seen, EOLbytes) = 0

----------------------------------------------------------------------------
(* A read that follows a timeout: claim C22, checked under SpecFramer *)

\* C22: when a read has timed out, the chunks it had accumulated are dropped
\* and what the peer sent after them stays in the buffer or in flight; the
\* next read returns the line that follows the dropped chunks in the stream,
\* the late line or what is left of it.
C22_NoRecoveryAfterTimeout ==
    /\ (pc = "idle" /\ last.op = "read_utf8" /\ last.exc = "SigurTimeoutException") =>
          /\ result = <<>>
          /\ lost # <<>>
          /\ nops = 1 => sent = lost[1] \o buffer \o inflight
    /\ (ReadReturned /\ nops = 2 /\ Len(lost) = 1) =>
          /\ sent = lost[1] \o result \o buffer \o inflight
          /\ query(last).val \o EOL = result

\* the first read dropped an overrun chunk at its timeout and the second
\* returned the rest of that line
C22_Witness ==
    /\ ReadReturned
    /\ nops = 2
    /\ Len(lost) = 1
    /\ lost[1] # <<>>
    /\ last.val # <<>>
    /\ chunks >= 1

----------------------------------------------------------------------------
(* The command of accesspolicy_request: claim C23, checked under SpecRequest *)

T_SP_EMPID == <<SP>> \o T_EMPIDWORD \o <<SP>>
T_SP_KEY == <<SP>> \o T_KEY \o <<SP>>
T_SP_LPNUMBER == <<SP>> \o T_LPNUMBER \o <<SP>>
T_SP_DIRECTION == <<SP>> \o T_DIRECTION \o <<SP>>
T_SP_APID == <<SP>> \o T_APID \o <<SP>>

\* the text ends with p
EndsWith(s, p) == Len(s) >= Len(p) /\ HasAt(s, p, Len(s) - Len(p) + 1)

\* C23: with no object_id, key or lpnumber that Python counts as true,
\* accesspolicy_request writes nothing and returns None; otherwise it writes
\* one command with one identifier clause, EMPID if there is an object_id,
\* else KEY if there is a key, else LPNUMBER, followed by a DIRECTION that is
\* the one passed if that is IN, OUT or X and X if not, followed by APID and
\* then only the extra rules, if any.
C23_OneIdentifierClause ==
    ret.op = "accesspolicy_request" =>
        IF ~(Truthy(arg.object_id) \/ KeyGiven(arg.key) \/ Truthy(arg.lpnumber))
        THEN wire = <<>> /\ ret.kind = "return" /\ ~ret.flag
        ELSE /\ Len(wire) = 1
             /\ ret.kind = "query"
             /\ LET c == wire[1].cmd
                    clause == CASE Truthy(arg.object_id) -> T_SP_EMPID \o arg.object_id.text
                                [] KeyGiven(arg.key) -> T_SP_KEY \o KeyStr(arg.key)
                                [] OTHER -> T_SP_LPNUMBER \o arg.lpnumber.text
                    d == IF arg.direction \in {T_IN, T_OUT, T_X} THEN arg.direction ELSE T_X
                    tail == T_SP_APID \o arg.ap_id.text
                              \o (IF Truthy(arg.extra_rules)
                                  THEN <<SP>> \o arg.extra_rules.text ELSE <<>>)
                IN  /\ Count(c, T_SP_EMPID) + Count(c, T_SP_KEY) + Count(c, T_SP_LPNUMBER) = 1
                    /\ Count(c, T_SP_DIRECTION) = 1
                    /\ Count(c, T_SP_APID) = 1
                    /\ EndsWith(c, clause \o T_SP_DIRECTION \o d \o tail)

\* all three identifiers were passed, with a direction that is none of the
\* three and with extra rules
C23_Witness ==
    /\ ret.op = "accesspolicy_request"
    /\ Truthy(arg.object_id)
    /\ KeyGiven(arg.key)
    /\ Truthy(arg.lpnumber)
    /\ arg.direction = <<"U", "P">>
    /\ Truthy(arg.extra_rules)
    /\ Len(wire) = 1

----------------------------------------------------------------------------
(* Two callers on one connection: claim C21, checked under SpecConcurrent *)

\* C21: nothing serializes the callers: whenever the step of a caller that
\* has arrived at query runs, its command is written, whatever the other
\* caller is in the middle of; and the reply lines go to the callers in the
\* order of their reads: the k-th line read is the answer to the k-th command
\* written, whoever reads it.
C21_NothingSerializesCallers ==
    /\ [][\A c \in Callers :
             (ntodo > 0 /\ ntodo' = ntodo - 1 /\ ready[1] = c /\ tasks[c].pc = "query")
                 => /\ Len(wire') = Len(wire) + 1
                    /\ wire'[Len(wire')].cmd = CommandOf(c)]_vars
    /\ [](\A k \in 1..Len(handed) :
             /\ k <= Len(wire)
             /\ handed[k].line = AnswerTo(wire[k].cmd))

\* both commands were written before any reply line was read, and the first
\* line read, the reply to caller 1's command, was returned to caller 2 as
\* the reply to its own
C21_Witness ==
    /\ handed # <<>>
    /\ handed[1].written >= 2
    /\ handed[1].by = 2
    /\ wire[1].cmd = CommandOf(1)
    /\ handed[1].line = AnswerTo(CommandOf(1))
    /\ tasks[2].pc = "idle"
    /\ tasks[2].last.kind = "return"
    /\ tasks[2].last.val = AnswerTo(CommandOf(1))

====
